---- MODULE Spec2Model ----
(***************************************************************************)
(* Cross-context orchestration protocol of the BroTrans browser extension. *)
(*                                                                         *)
(* Three specifications share this module:                                 *)
(*   SpecParse  the action extraction of generateResponse (both variants)  *)
(*              applied to generated texts drawn from a bounded set;       *)
(*   Spec       the built-in-AI controller (src/src/background.js 1-261)   *)
(*              with its popup's busy flag and the Gmail content script;   *)
(*   SpecOff    the WebLLM controller (src/unnamed/part_004) with the      *)
(*              offscreen host (src/src/offscreen.js).                     *)
(*                                                                         *)
(* A generated text is a sequence of tokens.  Each token stands for a run  *)
(* of characters of the text:                                              *)
(*   "{" "}" ":" ","   the JSON punctuation characters                     *)
(*   "A"               the eight characters  "action"  (a JSON string)     *)
(*   "P"               the JSON string  "params"                           *)
(*   "S"               the JSON string  "summarize_inbox"                  *)
(*   "U"               a JSON string that is no known action name          *)
(*   "w"               a run of prose without quotes, braces or blanks     *)
(*   "n"               white space (blank or newline)                      *)
(***************************************************************************)
EXTENDS Integers, Sequences, FiniteSets, Bags, TLC

\* ------------------------------------------------------------------ bounds
MaxChunks   == 3    \* chunks per generated text (SpecParse)
NProc       == 2    \* handler invocations that can be in progress at once
MaxSessions == 2    \* languageModel.create() calls that succeed in one run
MaxRequests == 2    \* chat requests a popup starts in one run (SpecUI)
MaxRows == 2        \* tr.zA rows the inbox shows (SpecPage)
MaxTimers == 1      \* draftReply timers pending at once (SpecPage)
MaxInbox == 52      \* tr.zA rows of the inbox a prompt is built for (SpecPrompt)
MaxBytes == 2       \* size of the largest downloaded file, in parts (SpecProgress)
MaxEvents == 3      \* progress objects the popup receives in one run (SpecProgress)

\* The limits the program applies on the way from the page to the prompt.
ListLimit == 50         \* content.js:26     index >= 50
BodyLimit == 2000       \* content.js:60     slice(0, 2000)
BgBodySlice == 300      \* background.js:95  body?.slice(0, 300)
OffBodySlice == 500     \* offscreen.js:96   body?.slice(0, 500)

\* ------------------------------------------------------------------ state
\* SpecParse: the generated text, the variant applied to it, its result.
VARIABLES rawText, variant, parsed

parseVars == <<rawText, variant, parsed>>

\* Spec: the built-in-AI controller (background.js 1-261) and its popup.
VARIABLES
    aiSession,          \* background.js:7   0 = null, else the session's id
    isCreatingSession,  \* background.js:8
    handlers,           \* the invocations in progress (a bag of records)
    modelReady,         \* popup.js:18
    isGenerating,       \* popup.js:19
    loadSent,           \* the popup has run loadModel()
    gmail,              \* the Gmail tab: "none", "ok", "stale" (no content script)
    created,            \* sessions created so far (source of fresh ids)
    roundCreates,       \* create() calls issued in the current round
    failed              \* sessions on which a prompt() has rejected

bgVars == <<aiSession, isCreatingSession, handlers, modelReady, isGenerating,
            loadSent, gmail, created, roundCreates, failed>>

\* SpecOff: the WebLLM controller (part_004) and the offscreen host.
VARIABLES
    creatingOffscreen,  \* part_004:7  "null", or the state of the promise
                        \*             stored there: "pending" / "rejected"
    docExists,          \* an offscreen document exists
    engine,             \* offscreen.js:12   0 = null, 1 = the MLCEngine
    isLoading,          \* offscreen.js:13
    isLoaded,           \* offscreen.js:14
    senders             \* the invocations in progress (a bag of records)

offVars == <<creatingOffscreen, docExists, engine, isLoading, isLoaded, senders>>

\* The variables of Spec that SpecOff does not use.
bgOnlyVars == <<aiSession, isCreatingSession, handlers, created, roundCreates, failed>>

\* Which background script the extension runs: "ai" is src/src/background.js
\* (lines 1-261), "webllm" is src/unnamed/part_004.
VARIABLES build

\* SpecPipe: the Transformers.js background (src/unnamed/part_001 is build
\* "ts", src/src/background.js 262-713 is build "js") and the sentiment
\* popup (src/src/popup.ts), whose modelReady flag is the variable modelReady
\* above and whose initializeModel() call is recorded in loadSent.
VARIABLES
    instance,           \* part_001:37,49  per engine kind, the promise stored by
                        \*   getInstance: "null", "pending", "resolved", "rejected"
    pipelineCalls,      \* per engine kind, the calls of pipeline() so far
    requests,           \* the invocations in progress (a bag of records)
    isAnalyzing,        \* popup.ts:55
    statusBadge         \* popup.ts:117-119  "", "loading", "ready", "error"

pipeVars == <<instance, pipelineCalls, requests, isAnalyzing, statusBadge>>

\* SpecUI: the chat popups on their own, the background and the engine
\* being their environment.  Build "popup-webllm" is src/src/popup.js 1-405
\* (its modelReady, isGenerating are the variables above, loadSent records
\* its loadModel() call); build "popup-ai" is src/src/popup.js 407-947, which
\* runs the engine itself (its aiSession and isGenerating are the variables
\* above, created is the source of session ids).
VARIABLES
    aiReady,            \* popup.js:423
    useStreaming,       \* popup.js:230  the switch of generateResponse
    streamingMessage,   \* popup.js:20   0 = null, else a message element
    messages,           \* the assistant message elements of the chat, in
                        \*   order of creation: who created, who wrote, text
    chats,              \* the generateResponse calls so far, in order
    initPc,             \* the popup's initialiser (loadModel / initAI):
                        \*   "unstarted", the await it is at, "timer", "idle"
    availability,       \* popup.js:581  what the latest initAI learnt:
                        \*   "unset", "no-api" (lines 562-574: no API object),
                        \*   "throws", or the value of api.availability()
    clicks,             \* WebLLM popup: what became of the last send click,
                        \*   Enter press or quick-action click, and the user
                        \*   messages added to the chat so far
    affordances         \* part_003:219-227  sendBtn and the quick-action
                        \*   buttons are enabled; the class of statusBadge;
                        \*   the text of statusDetail; userInput holds text

uiVars == <<aiReady, useStreaming, streamingMessage, messages, chats, initPc, clicks,
           affordances, availability>>

\* The content script (content.js) and the Gmail page it runs in:
\*   dom          which elements the selectors find, and how many rows
\*   handled      the message the listener ran for last, with its outcome
\*   draftTimers  setTimeout callbacks of draftReply not yet run
\*   composeHTML  what a timer wrote into the compose body
\*   lastRead     what the last get_email_context / get_emails returned, and
\*                how often the page was read since it last changed (SpecRead)
\*   inference    the way of one context from the page to the prompt
\*                (SpecPrompt): the rows and the open email's body length,
\*                what getEmailContext returned, what the prompt holds
VARIABLES dom, handled, draftTimers, composeHTML, lastRead, inference
pageVars == <<dom, handled, draftTimers, composeHTML, lastRead, inference>>

\* SpecChannel: the messages on the chrome.runtime channel that the
\* background (part_004) and the offscreen host (offscreen.js) both listen
\* on, each with what either listener did with it and the answers it got.
VARIABLES channel
netVars == <<channel>>

\* SpecProgress: the download display of the WebLLM popup (popup.js 74-141).
VARIABLES
    downloadProgress,   \* popup.js:23  the Map: per file, {loaded, total}
    progressFill,       \* popup.js:12  progressFill.style.width in percent,
                        \*   and whether it has the class 'indeterminate'
    progressEvents      \* the progress objects updateLoadProgress was
                        \*   called with so far, in order
progVars == <<downloadProgress, progressFill, progressEvents>>


vars == <<parseVars, bgVars, offVars, build, pipeVars, uiVars, pageVars, netVars, progVars>>
notRead == <<parseVars, bgVars, offVars, build, pipeVars, uiVars, inference, netVars, progVars>>
notPrompt == <<parseVars, bgVars, offVars, build, pipeVars, uiVars,
               dom, handled, draftTimers, composeHTML, lastRead, netVars, progVars>>
notChannel == <<parseVars, bgVars, offVars, build, pipeVars, uiVars, pageVars, progVars>>
notProgress == <<parseVars, bgVars, offVars, build, pipeVars, uiVars, pageVars, netVars>>
notPage == <<notRead, lastRead>>

\* What the actions of each part leave alone.
notParse == <<bgVars, offVars, build, pipeVars, uiVars, pageVars, netVars, progVars>>
notBg    == <<parseVars, offVars, build, pipeVars, uiVars, pageVars, netVars, progVars>>
notOff   == <<parseVars, bgOnlyVars, build, pipeVars, uiVars, pageVars, netVars, progVars>>
notPipe  == <<parseVars, bgOnlyVars, offVars, build, isGenerating, gmail, uiVars, pageVars,
             netVars, progVars>>
notInit  == <<parseVars, offVars, build, pipeVars, pageVars, isCreatingSession, handlers,
             roundCreates, failed, gmail, useStreaming, netVars, progVars>>
notPopup == <<notInit, availability>>
notClick == <<notPopup, affordances>>
notUI    == <<notPopup, clicks, affordances>>
notGate  == <<notPopup, clicks, modelReady, loadSent, streamingMessage>>

\* ---------------------------------------------------------------- helpers
Null == 0

Min(S) == CHOOSE x \in S : \A y \in S : x <= y
Max(S) == CHOOSE x \in S : \A y \in S : x >= y

\* The strings of the token alphabet: "action", "params", "summarize_inbox",
\* a name no action has, and "constructor".
StringToks == {"A", "P", "S", "U", "C"}

\* String.prototype.trim: strip white space at both ends.
RECURSIVE TrimLeft(_)
TrimLeft(s) ==
    IF s # <<>> /\ Head(s) = "n" THEN TrimLeft(Tail(s)) ELSE s

RECURSIVE TrimRight(_)
TrimRight(s) ==
    IF s # <<>> /\ s[Len(s)] = "n" THEN TrimRight(SubSeq(s, 1, Len(s) - 1)) ELSE s

Trim(s) == TrimRight(TrimLeft(s))

\* ------------------------------------------------------------- JSON.parse
\* Index of the first non-blank token at or after i (Len(s)+1 if none).
RECURSIVE SkipWs(_, _)
SkipWs(s, i) ==
    IF i <= Len(s) /\ s[i] = "n" THEN SkipWs(s, i + 1) ELSE i

\* ParseValue(s, i): index just after the JSON value that starts at i
\* (blanks skipped), or 0 when no JSON value starts there.
\* ParseMembers(s, i): index just after the closing brace of the object
\* whose next member starts at i, or 0.
RECURSIVE ParseValue(_, _), ParseMembers(_, _)
ParseValue(s, i) ==
    LET k == SkipWs(s, i) IN
    IF k > Len(s) THEN 0
    ELSE IF s[k] \in StringToks THEN k + 1
    ELSE IF s[k] = "{" THEN
        LET m == SkipWs(s, k + 1) IN
        IF m <= Len(s) /\ s[m] = "}" THEN m + 1 ELSE ParseMembers(s, m)
    ELSE 0

ParseMembers(s, i) ==
    LET k == SkipWs(s, i) IN
    IF k > Len(s) \/ s[k] \notin StringToks THEN 0
    ELSE LET c == SkipWs(s, k + 1) IN
         IF c > Len(s) \/ s[c] # ":" THEN 0
         ELSE LET v == ParseValue(s, c + 1) IN
              IF v = 0 THEN 0
              ELSE LET e == SkipWs(s, v) IN
                   IF e > Len(s) THEN 0
                   ELSE IF s[e] = "}" THEN e + 1
                   ELSE IF s[e] = "," THEN ParseMembers(s, e + 1)
                   ELSE 0

\* JSON.parse(s) returns normally (s is one JSON value, blanks around it).
JSONParses(s) ==
    LET e == ParseValue(s, 1) IN e # 0 /\ SkipWs(s, e) = Len(s) + 1

\* The members of the top-level object of a text that JSONParses:
\* a sequence of <<key, first, last>>, the value being SubSeq(s, first, last).
RECURSIVE TopMembers(_, _)
TopMembers(s, i) ==
    LET k == SkipWs(s, i) IN
    IF k > Len(s) \/ s[k] \notin StringToks THEN <<>>
    ELSE LET c == SkipWs(s, k + 1)
             f == SkipWs(s, c + 1)
             v == ParseValue(s, c + 1)
             e == SkipWs(s, v)
         IN  <<  <<s[k], f, v - 1>>  >> \o
             (IF e <= Len(s) /\ s[e] = "," THEN TopMembers(s, e + 1) ELSE <<>>)

Members(s) ==
    LET k == SkipWs(s, 1) IN
    IF JSONParses(s) /\ s[k] = "{" THEN TopMembers(s, k + 1) ELSE <<>>

\* obj[key] of the parsed object: the value of the last member named key
\* (a later duplicate key overwrites an earlier one), blanks dropped;
\* <<>> stands for undefined.
Prop(s, key) ==
    LET ms == Members(s)
        I  == {x \in 1..Len(ms) : ms[x][1] = key}
    IN  IF I = {} THEN <<>>
        ELSE LET m == ms[Max(I)] IN
             SelectSeq(SubSeq(s, m[2], m[3]), LAMBDA t : t # "n")

\* The value JSON.parse returns, as far as the program reads it:
\* action.action and action.params.
ParsedAction(s) == [action |-> Prop(s, "A"), params |-> Prop(s, "P")]

NoAction == [action |-> <<"null">>, params |-> <<"null">>]

\* ------------------------------------------------- action extraction (regex)
\* Positions where  \{[\s\S]*"action"[\s\S]*\}  can start: an opening brace
\* with a later "action" string and a closing brace after that.
MatchStarts(s) ==
    {i \in 1..Len(s) : s[i] = "{" /\
        \E j \in (i + 1)..Len(s) : s[j] = "A" /\
            \E k \in (j + 1)..Len(s) : s[k] = "}"}

\* First closing brace after the first "action" that follows position i:
\* the end of the match of the lazy pattern  /\{[\s\S]*?"action"[\s\S]*?\}/ .
LazyEnd(s, i) ==
    LET j == Min({x \in (i + 1)..Len(s) : s[x] = "A" /\
                     \E k \in (x + 1)..Len(s) : s[k] = "}"})
    IN  Min({k \in (j + 1)..Len(s) : s[k] = "}"})

\* The match of the greedy pattern  /\{[\s\S]*"action"[\s\S]*\}/  ends at the
\* last closing brace of the text.
GreedyEnd(s, i) ==
    LET j == Max({x \in (i + 1)..Len(s) : s[x] = "A" /\
                     \E k \in (x + 1)..Len(s) : s[k] = "}"})
    IN  Max({k \in (j + 1)..Len(s) : s[k] = "}"})

\* String.prototype.match without the g flag: the leftmost match, as the
\* pair <<first, last>> of positions, or <<>> when the pattern matches nowhere.
actionMatchBg(s) ==
    IF MatchStarts(s) = {} THEN <<>>
    ELSE LET i == Min(MatchStarts(s)) IN <<i, LazyEnd(s, i)>>

actionMatchOff(s) ==
    IF MatchStarts(s) = {} THEN <<>>
    ELSE LET i == Min(MatchStarts(s)) IN <<i, GreedyEnd(s, i)>>

\* text.replace(pattern, ''): the text without the matched positions.
RemoveMatch(s, m) == SubSeq(s, 1, m[1] - 1) \o SubSeq(s, m[2] + 1, Len(s))

\* getActionConfirmation: msgs[action.action] || fallback.  Of the known
\* action names the token alphabet holds summarize_inbox only.  msgs is an
\* object literal, so msgs["constructor"] is the function Object that it
\* inherits, which is truthy and is returned as it is.
getActionConfirmationBg(action) ==
    IF action.action = <<"S">> THEN <<"Summarizing your inbox...">>
    ELSE IF action.action = <<"C">> THEN <<"function Object">>
    ELSE <<"Processing...">>

getActionConfirmationOff(action) ==
    IF action.action = <<"S">> THEN <<"I'll summarize your inbox for you.">>
    ELSE IF action.action = <<"C">> THEN <<"function Object">>
    ELSE <<"Executing action...">>

\* The same without the try: the SyntaxError of JSON.parse leaves
\* generateResponse, which has no action to return.
parseActionThrows(s, m) ==
    IF m # <<>> /\ JSONParses(SubSeq(s, m[1], m[2]))
    THEN ParsedAction(SubSeq(s, m[1], m[2]))
    ELSE IF m # <<>> THEN [action |-> <<"SyntaxError">>, params |-> <<>>]
    ELSE NoAction

\* action = null; if (actionMatch) try { action = JSON.parse(actionMatch[0]) }
\* catch (e) { }
parseActionOf(s, m) ==
    IF m # <<>> /\ JSONParses(SubSeq(s, m[1], m[2]))
    THEN ParsedAction(SubSeq(s, m[1], m[2]))
    ELSE NoAction

\* The part of generateResponse after the engine has answered:
\* { response: cleanResponse, action }.
cleanResponseBg(s) ==
    LET m      == actionMatchBg(s)
        action == parseActionOf(s, m)
    IN  IF action = NoAction THEN [response |-> s, action |-> action]
        ELSE LET c == Trim(RemoveMatch(s, m)) IN
             [response |-> IF c = <<>> THEN getActionConfirmationBg(action) ELSE c,
              action   |-> action]

cleanResponseOff(s) ==
    LET m      == actionMatchOff(s)
        action == parseActionOf(s, m)
    IN  IF action = NoAction THEN [response |-> s, action |-> action]
        ELSE LET c == Trim(RemoveMatch(s, m)) IN
             [response |-> IF c = <<>> THEN getActionConfirmationOff(action) ELSE c,
              action   |-> action]

\* ------------------------------------------------------- generated texts
ActionJSON       == <<"{", "A", ":", "S", "}">>
UnknownJSON      == <<"{", "A", ":", "U", "}">>
ActionParamsJSON == <<"{", "A", ":", "S", ",", "P", ":", "{", "}", "}">>
ActionQueryJSON  == <<"{", "A", ":", "S", ",", "P", ":", "{", "P", ":", "U", "}", "}">>
ValueOnlyJSON    == <<"{", "P", ":", "A", "}">>
InheritedJSON    == <<"{", "A", ":", "C", "}">>
\* An object the engine stopped in the middle of:  {"action":
TruncatedJSON    == <<"{", "A", ":">>

\* Scenario B:  Here is a summary.\n{"action":"summarize_inbox","params":{}}
ScenarioB == <<"w", "n">> \o ActionParamsJSON

Chunks ==
    { <<"w">>, <<"n">>, <<"{">>, <<"}">>, <<"A">>,
      ActionJSON, UnknownJSON, ActionParamsJSON, ActionQueryJSON, ValueOnlyJSON,
      InheritedJSON, TruncatedJSON }

RECURSIVE Concat(_)
Concat(ss) == IF ss = <<>> THEN <<>> ELSE Head(ss) \o Concat(Tail(ss))

Texts == UNION {{Concat(f) : f \in [1..n -> Chunks]} : n \in 0..MaxChunks}

\* ------------------------------------------------------------- SpecParse

NotParsed == [response |-> <<"pending">>, action |-> NoAction]

InitParse ==
    /\ rawText \in Texts
    /\ variant = "none"
    /\ parsed = NotParsed

\* background.js generateResponse, lines 103-121, on the text session.prompt
\* returned.
BgExtract ==
    /\ variant = "none"
    /\ variant' = "bg"
    /\ parsed' = cleanResponseBg(rawText)
    /\ UNCHANGED rawText
    /\ UNCHANGED notParse

\* offscreen.js generateResponse, lines 111-136.
OffExtract ==
    /\ variant = "none"
    /\ variant' = "off"
    /\ parsed' = cleanResponseOff(rawText)
    /\ UNCHANGED rawText
    /\ UNCHANGED notParse

NextParse == BgExtract \/ OffExtract

\* ================================================================ Spec
\* The built-in-AI controller, src/src/background.js lines 1-261.
\*
\* A handler invocation (a runtime message or a context-menu click) is a
\* record of the bag handlers.  JavaScript runs each continuation to
\* completion, and the continuation of an await on an already settled promise
\* runs before any later browser event is delivered; an action below is
\* therefore everything the handler does between two browser-level
\* completions (tabs.query / tabs.sendMessage, capabilities(), create(), the
\* 100 ms timer, prompt()).

NoResult == [response |-> <<>>, action |-> NoAction]
NoReply  == [type |-> "none", response |-> <<>>, action |-> NoAction,
             actionResult |-> "undefined", error |-> "", loaded |-> FALSE,
             loading |-> FALSE]

\* A handler invocation that has just been entered:
\*   kind          the message action, or "menu" for a context-menu click
\*   pc            the await the invocation is suspended at
\*   session       generateResponse: const session
\*   got           how getAISession ended: none / returned / threw
\*   joined        it created or waited in the latest round of creation
\*   prompt        generateResponse: const prompt, as its parts
\*   response      generateResponse: const response, the generated text
\*   result        generateResponse's return value
\*   actionResult  result.actionResult
\*   reply         what sendResponse was called with
\*   dispatched    the messages it sent with chrome.tabs.sendMessage
NewHandler(k) ==
    [kind |-> k, pc |-> "start", session |-> Null, got |-> "none",
     joined |-> FALSE, prompt |-> <<>>, response |-> <<>>, result |-> NoResult,
     actionResult |-> "undefined", reply |-> NoReply, dispatched |-> <<>>]

H == BagToSet(handlers)
One(h) == SetToBag({h})
Others(h) == handlers (-) One(h)

\* The context-menu handler ends with its alert (lines 247-258): nothing
\* awaits an answer from it, so the invocation is over at once.  A message
\* handler's answer travels back to the page that sent the message.
Over(h) == h.kind = "menu" /\ h.pc = "replied"
Live(h) == IF Over(h) THEN EmptyBag ELSE One(h)
LiveOnes(b) == b (-) [h \in {x \in BagToSet(b) : Over(x)} |-> b[h]]
InProgress == BagCardinality(handlers)

\* Texts session.prompt resolves with in Spec.
PromptTexts == {<<"w">>, ScenarioB, ActionJSON, UnknownJSON}

\* Each of them with what generateResponse makes of it (background.js
\* lines 102-129).
GenerateResult == {<<t, cleanResponseBg(t)>> : t \in PromptTexts}

InitBg ==
    /\ aiSession = Null
    /\ isCreatingSession = FALSE
    /\ handlers = EmptyBag
    /\ modelReady = FALSE
    /\ isGenerating = FALSE
    /\ loadSent = FALSE
    /\ gmail \in {"none", "ok", "stale"}
    /\ created = 0
    /\ roundCreates = 0
    /\ failed = {}

\* ------------------------------------------------------------ content.js
\* The chrome.runtime.onMessage switch of the content script: the kind of
\* result it answers an action name with.
contentOnMessage(action) ==
    CASE action = <<"get_email_context">> -> "emailContext"
      [] action = <<"get_emails">>        -> "emails"
      [] action = <<"S">>                 -> "summary"
      [] OTHER                            -> "error: Unknown action"

\* sendToContentScript(action, params): the result, given the Gmail tab.
sendToContentScript(action) ==
    CASE gmail = "none"  -> "error: Open Gmail first"
      [] gmail = "stale" -> "error: Refresh Gmail page"
      [] OTHER           -> contentOnMessage(action)

\* The messages chrome.tabs.sendMessage was called with.
tabsSendMessage(log, action, params) ==
    IF gmail = "none" THEN log ELSE Append(log, <<action, params>>)

\* executeAction: if (!action?.action) return null  -- no await is reached.
executeActionReturnsNull(action) == action = NoAction \/ action.action = <<>>

\* action.params || {}
paramsOrEmpty(action) == IF action.params = <<>> THEN <<"{", "}">> ELSE action.params

\* ------------------------------------------------------------ the handlers
\* sendResponse(r) of a message handler (the alert of the context menu).
Replied(h, r) == [h EXCEPT !.reply = r, !.pc = "replied"]

ErrorReply(msg) == [NoReply EXCEPT !.type = "error", !.error = msg]

\* What a handler of kind k does with a fault: a message handler's catch
\* calls sendResponse({ error }), the context-menu handler's catch alerts.
Fault(k, msg) ==
    [NoReply EXCEPT !.type = IF k = "menu" THEN "alert_error" ELSE "error",
                    !.error = msg]

\* sendResponse({ success: true, loaded: true })
LoadedReply == [NoReply EXCEPT !.type = "success", !.loaded = TRUE]

\* The caller of getAISession resumes with the value s it returned.
\* load_model answers; generateResponse builds the prompt and calls
\* session.prompt(prompt) inside its try block: on a null session that is a
\* TypeError, handled by the catch of line 123, which clears aiSession.
Resume(h, s) ==
    LET g == [h EXCEPT !.session = s, !.got = "returned"] IN
    IF h.kind = "load_model" THEN Replied(g, LoadedReply)
    ELSE IF s = Null THEN Replied(g, Fault(h.kind, "TypeError"))
    ELSE [g EXCEPT !.pc = "prompt"]

ResumeClears(h, s) == h.kind # "load_model" /\ s = Null

\* getAISession throws: nothing catches it before the handler's own catch.
Throw(h, msg) == Replied([h EXCEPT !.got = "threw"], Fault(h.kind, msg))

\* getAISession, lines 49-59, up to its first await or its early return,
\* called by h while the other invocations are rest.  A round is one raising
\* of isCreatingSession; the callers of a round are its creator and those
\* that wait on the flag while it is up.
getAISession(h, rest) ==
    IF aiSession # Null THEN
        /\ handlers' = rest (+) Live(Resume(h, aiSession))
        /\ UNCHANGED <<aiSession, isCreatingSession, roundCreates>>
    ELSE IF isCreatingSession THEN
        /\ handlers' = rest (+) One([h EXCEPT !.pc = "wait", !.joined = TRUE])
        /\ UNCHANGED <<aiSession, isCreatingSession, roundCreates>>
    ELSE
        /\ isCreatingSession' = TRUE
        /\ roundCreates' = 0
        /\ handlers' =
              BagOfAll(LAMBDA q : [q EXCEPT !.joined = (q.joined /\ q.pc = "wait")],
                       rest)
              (+) One([h EXCEPT !.pc = "avail", !.joined = TRUE])
        /\ UNCHANGED aiSession

\* popup.js loadModel (DOMContentLoaded) sends load_model; the handler of
\* lines 182-186 calls getAISession.
PopupLoadModel ==
    /\ ~loadSent /\ InProgress < NProc
    /\ loadSent' = TRUE
    /\ getAISession(NewHandler("load_model"), handlers)
    /\ UNCHANGED <<modelReady, isGenerating, gmail, created, failed>>
    /\ UNCHANGED notBg

\* popup.js handleSend / handleQuickAction behind their guard, then
\* generateResponse sends chat; the handler of line 198 awaits
\* sendToContentScript('get_email_context').
PopupSend ==
    /\ modelReady /\ ~isGenerating /\ InProgress < NProc
    /\ isGenerating' = TRUE
    /\ handlers' = handlers (+) One([NewHandler("chat") EXCEPT !.pc = "ctx"])
    /\ UNCHANGED <<aiSession, isCreatingSession, modelReady, loadSent, gmail,
                   created, roundCreates, failed>>
    /\ UNCHANGED notBg

\* generateResponse lines 86-98: userMessage, then the inbox block when
\* emailContext.emails is non-empty, then the open-email block.
buildPrompt(hasContext, emails, openEmail) ==
    <<"userMessage">>
        \o (IF hasContext /\ emails THEN <<"inbox">> ELSE <<>>)
        \o (IF hasContext /\ openEmail THEN <<"openEmail">> ELSE <<>>)

\* The context arrives (lines 199-200); generateResponse starts.
ChatContext(h) ==
    /\ h.pc = "ctx"
    /\ \E emails, openEmail \in BOOLEAN :
         LET ctx == sendToContentScript(<<"get_email_context">>)
             g   == [h EXCEPT
                       !.prompt = buildPrompt(ctx = "emailContext", emails, openEmail),
                       !.dispatched = tabsSendMessage(@, <<"get_email_context">>,
                                                      <<"{", "}">>)]
         IN  getAISession(g, Others(h))
    /\ UNCHANGED <<modelReady, isGenerating, loadSent, gmail, created, failed>>
    /\ UNCHANGED notBg

\* contextMenus.onClicked, lines 242-246: generateResponse(..., null).
MenuClick ==
    /\ InProgress < NProc
    /\ getAISession([NewHandler("menu") EXCEPT
                        !.prompt = buildPrompt(FALSE, FALSE, FALSE)], handlers)
    /\ UNCHANGED <<modelReady, isGenerating, loadSent, gmail, created, failed>>
    /\ UNCHANGED notBg

\* AvailDone without the finally of lines 77-79: the error thrown for an
\* unavailable model leaves the flag up.
AvailDoneNoFinally(h) ==
    /\ h.pc = "avail"
    /\ \/ /\ created < MaxSessions
          /\ handlers' = Others(h) (+) One([h EXCEPT !.pc = "create"])
          /\ roundCreates' = roundCreates + 1
       \/ /\ handlers' = Others(h) (+) Live(Throw(h, "not available"))
          /\ UNCHANGED roundCreates
    /\ UNCHANGED <<aiSession, isCreatingSession, modelReady, isGenerating, loadSent,
                   gmail, created, failed>>
    /\ UNCHANGED notBg

\* checkAIAvailability() has answered the creating caller (lines 62-68):
\* create() is called, or the error is thrown and finally clears the flag.
AvailDone(h) ==
    /\ h.pc = "avail"
    /\ \/ /\ created < MaxSessions
          /\ handlers' = Others(h) (+) One([h EXCEPT !.pc = "create"])
          /\ roundCreates' = roundCreates + 1
          /\ UNCHANGED isCreatingSession
       \/ /\ isCreatingSession' = FALSE
          /\ handlers' = Others(h) (+) Live(Throw(h, "not available"))
          /\ UNCHANGED roundCreates
    /\ UNCHANGED <<aiSession, modelReady, isGenerating, loadSent, gmail,
                   created, failed>>
    /\ UNCHANGED notBg

\* languageModel.create() settles (lines 68-79).
CreateDone(h) ==
    /\ h.pc = "create"
    /\ isCreatingSession' = FALSE
    /\ \/ /\ created' = created + 1
          /\ aiSession' = created + 1
          /\ handlers' = Others(h) (+) Live(Resume(h, created + 1))
       \/ /\ handlers' = Others(h) (+) Live(Throw(h, "create failed"))
          /\ UNCHANGED <<aiSession, created>>
    /\ UNCHANGED <<modelReady, isGenerating, loadSent, gmail, roundCreates,
                   failed>>
    /\ UNCHANGED notBg

\* The 100 ms timer of the waiting loop fires with the flag down
\* (lines 53-56): return aiSession, whatever it is now.
WaitPoll(h) ==
    /\ h.pc = "wait"
    /\ ~isCreatingSession
    /\ handlers' = Others(h) (+) Live(Resume(h, aiSession))
    /\ aiSession' = IF ResumeClears(h, aiSession) THEN Null ELSE aiSession
    /\ UNCHANGED <<isCreatingSession, modelReady, isGenerating, loadSent,
                   gmail, created, roundCreates, failed>>
    /\ UNCHANGED notBg

\* sendResponse({ success: true, response, action, actionResult }), line 206.
ChatReply(r, ar) ==
    [NoReply EXCEPT !.type = "success", !.response = r.response,
                    !.action = r.action, !.actionResult = ar]

\* AfterGenerate with the chat handler answering without awaiting
\* executeAction.
AfterGenerateAnswersFirst(h, r) ==
    LET g == [h EXCEPT !.result = r] IN
    IF h.kind = "menu"
    THEN Replied(g, [NoReply EXCEPT !.type = "alert", !.response = r.response])
    ELSE Replied(g, ChatReply(r, "undefined"))

\* What generateResponse's caller does with its return value r: the
\* context-menu handler alerts r.response; the chat handler calls
\* executeAction when r.action is truthy and then answers.
AfterGenerate(h, r) ==
    LET g == [h EXCEPT !.result = r] IN
    IF h.kind = "menu"
    THEN Replied(g, [NoReply EXCEPT !.type = "alert", !.response = r.response])
    ELSE IF r.action = NoAction THEN Replied(g, ChatReply(r, "undefined"))
    ELSE IF executeActionReturnsNull(r.action)
    THEN Replied([g EXCEPT !.actionResult = "null"], ChatReply(r, "null"))
    ELSE [g EXCEPT !.pc = "exec"]

\* PromptDone with a catch that clears aiSession only when the session that
\* failed is still the current one.
PromptDoneClearsOwn(h) ==
    /\ h.pc = "prompt"
    /\ \/ /\ aiSession' = IF h.session = aiSession THEN Null ELSE aiSession
          /\ failed' = failed \cup {h.session}
          /\ handlers' = Others(h) (+) Live(Replied(h, Fault(h.kind, "prompt failed")))
       \/ /\ \E g \in GenerateResult :
               handlers' = Others(h) (+)
                   Live(AfterGenerate([h EXCEPT !.response = g[1]], g[2]))
          /\ UNCHANGED <<aiSession, failed>>
    /\ UNCHANGED <<isCreatingSession, modelReady, isGenerating, loadSent,
                   gmail, created, roundCreates>>
    /\ UNCHANGED notBg

\* PromptDone with the catch of lines 123-128 leaving aiSession as it is.
PromptDoneKeepsSession(h) ==
    /\ h.pc = "prompt"
    /\ \/ /\ failed' = failed \cup {h.session}
          /\ handlers' = Others(h) (+) Live(Replied(h, Fault(h.kind, "prompt failed")))
          /\ UNCHANGED aiSession
       \/ /\ \E g \in GenerateResult :
               handlers' = Others(h) (+)
                   Live(AfterGenerate([h EXCEPT !.response = g[1]], g[2]))
          /\ UNCHANGED <<aiSession, failed>>
    /\ UNCHANGED <<isCreatingSession, modelReady, isGenerating, loadSent,
                   gmail, created, roundCreates>>
    /\ UNCHANGED notBg

\* session.prompt(prompt) settles (lines 101-128).  On rejection the catch
\* clears aiSession and rethrows; on success the action is extracted.
PromptDone(h) ==
    /\ h.pc = "prompt"
    /\ \/ /\ aiSession' = Null
          /\ failed' = failed \cup {h.session}
          /\ handlers' = Others(h) (+) Live(Replied(h, Fault(h.kind, "prompt failed")))
       \/ /\ \E g \in GenerateResult :
               handlers' = Others(h) (+)
                   Live(AfterGenerate([h EXCEPT !.response = g[1]], g[2]))
          /\ UNCHANGED <<aiSession, failed>>
    /\ UNCHANGED <<isCreatingSession, modelReady, isGenerating, loadSent,
                   gmail, created, roundCreates>>
    /\ UNCHANGED notBg

\* executeAction's sendToContentScript(action.action, action.params || {})
\* settles (lines 164-167, 203); the chat response follows.
ExecDone(h) ==
    /\ h.pc = "exec"
    /\ LET a  == h.result.action
           ar == sendToContentScript(a.action)
           g  == [h EXCEPT !.actionResult = ar,
                           !.dispatched = tabsSendMessage(@, a.action, paramsOrEmpty(a))]
       IN  handlers' = Others(h) (+) One(Replied(g, ChatReply(h.result, ar)))
    /\ UNCHANGED <<aiSession, isCreatingSession, modelReady, isGenerating,
                   loadSent, gmail, created, roundCreates, failed>>
    /\ UNCHANGED notBg

\* Message actions other extension pages send to the background.
OtherActions == {"check_status", "get_emails", "execute_action", "get_email_context"}

\* The switch of lines 175-223 for a message whose action is k: check_status
\* and get_emails reach an await, every other name falls to the default case.
Message(k) ==
    /\ InProgress < NProc
    /\ handlers' = handlers (+) One(
          IF k \in {"check_status", "get_emails"}
          THEN [NewHandler(k) EXCEPT !.pc = k]
          ELSE Replied(NewHandler(k), ErrorReply("Unknown action")))
    /\ UNCHANGED <<aiSession, isCreatingSession, modelReady, isGenerating,
                   loadSent, gmail, created, roundCreates, failed>>
    /\ UNCHANGED notBg

\* check_status, lines 188-196: checkAIAvailability() has answered.
StatusDone(h) ==
    /\ h.pc = "check_status"
    /\ \E available \in BOOLEAN :
         handlers' = Others(h) (+) One(Replied(h,
             [NoReply EXCEPT !.type = "status",
                             !.loaded = (aiSession # Null),
                             !.error = IF available THEN "" ELSE "not available"]))
    /\ UNCHANGED <<aiSession, isCreatingSession, modelReady, isGenerating,
                   loadSent, gmail, created, roundCreates, failed>>
    /\ UNCHANGED notBg

\* get_emails, lines 215-219: sendToContentScript('get_emails') has answered.
EmailsDone(h) ==
    /\ h.pc = "get_emails"
    /\ LET r == sendToContentScript(<<"get_emails">>)
           g == [h EXCEPT !.dispatched =
                             tabsSendMessage(@, <<"get_emails">>, <<"{", "}">>)]
       IN  handlers' = Others(h) (+) One(Replied(g,
               [NoReply EXCEPT !.type = "data", !.actionResult = r]))
    /\ UNCHANGED <<aiSession, isCreatingSession, modelReady, isGenerating,
                   loadSent, gmail, created, roundCreates, failed>>
    /\ UNCHANGED notBg

\* PopupLoadReply with loadModel not looking at the answer.
PopupLoadReplyAlwaysReady(h) ==
    /\ h.pc = "replied" /\ h.kind = "load_model"
    /\ modelReady' = TRUE
    /\ handlers' = Others(h)
    /\ UNCHANGED <<aiSession, isCreatingSession, isGenerating, loadSent, gmail,
                   created, roundCreates, failed>>
    /\ UNCHANGED notBg

\* popup.js loadModel, lines 55-66: the answer to load_model arrives.
PopupLoadReply(h) ==
    /\ h.pc = "replied" /\ h.kind = "load_model"
    /\ modelReady' = (modelReady \/ h.reply.type = "success" \/ h.reply.loaded)
    /\ handlers' = Others(h)
    /\ UNCHANGED <<aiSession, isCreatingSession, isGenerating, loadSent, gmail,
                   created, roundCreates, failed>>
    /\ UNCHANGED notBg

\* popup.js generateResponse, lines 236-259: the answer to chat arrives and
\* the finally block clears the busy flag.
PopupChatReply(h) ==
    /\ h.pc = "replied" /\ h.kind = "chat"
    /\ isGenerating' = FALSE
    /\ handlers' = Others(h)
    /\ UNCHANGED <<aiSession, isCreatingSession, modelReady, loadSent, gmail,
                   created, roundCreates, failed>>
    /\ UNCHANGED notBg

\* The answer to any other message arrives at its sender.
Finish(h) ==
    /\ h.pc = "replied" /\ h.kind \in OtherActions
    /\ handlers' = Others(h)
    /\ UNCHANGED <<aiSession, isCreatingSession, modelReady, isGenerating,
                   loadSent, gmail, created, roundCreates, failed>>
    /\ UNCHANGED notBg

NextBg ==
    \/ PopupLoadModel
    \/ PopupSend
    \/ MenuClick
    \/ \E k \in OtherActions : Message(k)
    \/ \E h \in H :
        \/ ChatContext(h)
        \/ AvailDone(h)
        \/ CreateDone(h)
        \/ WaitPoll(h)
        \/ PromptDone(h)
        \/ ExecDone(h)
        \/ StatusDone(h)
        \/ EmailsDone(h)
        \/ PopupLoadReply(h)
        \/ PopupChatReply(h)
        \/ Finish(h)

\* The callers of generateResponse alone: the popup's chats (after its
\* load_model) and the context-menu analyses.
NextGenerate ==
    \/ PopupLoadModel
    \/ PopupSend
    \/ MenuClick
    \/ \E h \in H :
        \/ ChatContext(h)
        \/ AvailDone(h)
        \/ CreateDone(h)
        \/ WaitPoll(h)
        \/ PromptDone(h)
        \/ ExecDone(h)
        \/ PopupLoadReply(h)
        \/ PopupChatReply(h)

\* ============================================================= SpecOff
\* The WebLLM controller, src/unnamed/part_004, and the offscreen host,
\* src/src/offscreen.js.  The popup is the same popup.js (lines 1-405), so
\* modelReady, isGenerating, loadSent and gmail are shared with Spec.

\* An invocation of part_004's message handler or context-menu handler:
\*   kind          the message action, or "menu"
\*   pc            the await it is suspended at
\*   found         setupOffscreenDocument: existingContexts.length > 0
\*   llm           offscreen generateResponse: const llm
\*   answer        what the offscreen host answered (sendToOffscreen's value)
\*   actionResult  result.actionResult
\*   reply         what sendResponse was called with
\*   dispatched    the messages sent with chrome.tabs.sendMessage
NewSender(k) ==
    [kind |-> k, pc |-> "start", found |-> FALSE, llm |-> Null,
     answer |-> NoReply, actionResult |-> "undefined", reply |-> NoReply,
     dispatched |-> <<>>]

OH == BagToSet(senders)
OthersOff(h) == senders (-) One(h)
InProgressOff == BagCardinality(senders)

\* Texts llm.chat.completions.create resolves with in SpecOff.
CompletionTexts == {<<"w">>, ScenarioB, UnknownJSON}

\* Each of them with what generateResponse makes of it (offscreen.js
\* lines 115-141).
CompletionResult == {<<t, cleanResponseOff(t)>> : t \in CompletionTexts}

InitOff ==
    /\ creatingOffscreen = "null"
    /\ docExists = FALSE
    /\ engine = Null
    /\ isLoading = FALSE
    /\ isLoaded = FALSE
    /\ senders = EmptyBag

\* The type sendToOffscreen is called with by a handler of kind k.
OffType(k) == IF k \in {"chat", "menu"} THEN "generate" ELSE k

\* popup.js loadModel sends load_model; part_004 lines 92-93 call
\* sendToOffscreen, whose setupOffscreenDocument awaits getContexts.
OffPopupLoadModel ==
    /\ ~loadSent /\ InProgressOff < NProc
    /\ loadSent' = TRUE
    /\ senders' = senders (+) One([NewSender("load_model") EXCEPT !.pc = "query"])
    /\ UNCHANGED <<creatingOffscreen, docExists, engine, isLoading, isLoaded,
                   modelReady, isGenerating, gmail>>
    /\ UNCHANGED notOff

\* popup.js handleSend / handleQuickAction, then chat; part_004 line 106
\* awaits sendToContentScript('get_email_context').
OffPopupSend ==
    /\ modelReady /\ ~isGenerating /\ InProgressOff < NProc
    /\ isGenerating' = TRUE
    /\ senders' = senders (+) One([NewSender("chat") EXCEPT !.pc = "ctx"])
    /\ UNCHANGED <<creatingOffscreen, docExists, engine, isLoading, isLoaded,
                   modelReady, loadSent, gmail>>
    /\ UNCHANGED notOff

\* The context arrives (part_004 lines 106-112); sendToOffscreen('generate').
OffChatContext(h) ==
    /\ h.pc = "ctx"
    /\ senders' = OthersOff(h) (+) One([h EXCEPT
           !.pc = "query",
           !.dispatched = tabsSendMessage(@, <<"get_email_context">>, <<"{", "}">>)])
    /\ UNCHANGED <<creatingOffscreen, docExists, engine, isLoading, isLoaded,
                   modelReady, isGenerating, loadSent, gmail>>
    /\ UNCHANGED notOff

\* contextMenus.onClicked, part_004 lines 156-163.
OffMenuClick ==
    /\ InProgressOff < NProc
    /\ senders' = senders (+) One([NewSender("menu") EXCEPT !.pc = "query"])
    /\ UNCHANGED <<creatingOffscreen, docExists, engine, isLoading, isLoaded,
                   modelReady, isGenerating, loadSent, gmail>>
    /\ UNCHANGED notOff

\* The switch of part_004 lines 91-137 for a message whose action is k.
OffMessage(k) ==
    /\ InProgressOff < NProc
    /\ senders' = senders (+) One(
          CASE k = "check_status" -> [NewSender(k) EXCEPT !.pc = "query"]
            [] k = "get_emails"   -> [NewSender(k) EXCEPT !.pc = "get_emails"]
            [] OTHER -> Replied(NewSender(k), ErrorReply("Unknown action")))
    /\ UNCHANGED <<creatingOffscreen, docExists, engine, isLoading, isLoaded,
                   modelReady, isGenerating, loadSent, gmail>>
    /\ UNCHANGED notOff

\* get_emails, part_004 lines 129-133.
OffEmailsDone(h) ==
    /\ h.pc = "get_emails"
    /\ LET r == sendToContentScript(<<"get_emails">>)
           g == [h EXCEPT !.dispatched =
                             tabsSendMessage(@, <<"get_emails">>, <<"{", "}">>)]
       IN  senders' = OthersOff(h) (+) One(Replied(g,
               [NoReply EXCEPT !.type = "data", !.actionResult = r]))
    /\ UNCHANGED <<creatingOffscreen, docExists, engine, isLoading, isLoaded,
                   modelReady, isGenerating, loadSent, gmail>>
    /\ UNCHANGED notOff

\* The browser answers chrome.runtime.getContexts (part_004 lines 13-16)
\* with the documents that exist at that moment.
QueryAnswered(h) ==
    /\ h.pc = "query"
    /\ senders' = OthersOff(h) (+) One([h EXCEPT !.pc = "queried", !.found = docExists])
    /\ UNCHANGED <<creatingOffscreen, docExists, engine, isLoading, isLoaded,
                   modelReady, isGenerating, loadSent, gmail>>
    /\ UNCHANGED notOff

\* setupOffscreenDocument with a creatingOffscreen that is cleared when the
\* creation fails, so that the next caller creates again.
setupOffscreenDocumentRetries(h) ==
    /\ h.pc = "queried"
    /\ IF h.found THEN
          /\ senders' = OthersOff(h) (+) One([h EXCEPT !.pc = "sent"])
          /\ UNCHANGED creatingOffscreen
       ELSE IF creatingOffscreen = "pending" THEN
          /\ senders' = OthersOff(h) (+) One([h EXCEPT !.pc = "awaiting"])
          /\ UNCHANGED creatingOffscreen
       ELSE
          /\ creatingOffscreen' = "pending"
          /\ senders' = OthersOff(h) (+) One([h EXCEPT !.pc = "creating"])
    /\ UNCHANGED <<docExists, engine, isLoading, isLoaded, modelReady,
                   isGenerating, loadSent, gmail>>
    /\ UNCHANGED notOff

\* setupOffscreenDocument resumes with the answer (part_004 lines 18-31):
\* return when a document was found, await the stored promise when there is
\* one (a rejected one throws), else call createDocument and store its promise.
setupOffscreenDocument(h) ==
    /\ h.pc = "queried"
    /\ IF h.found THEN
          /\ senders' = OthersOff(h) (+) One([h EXCEPT !.pc = "sent"])
          /\ UNCHANGED creatingOffscreen
       ELSE IF creatingOffscreen = "pending" THEN
          /\ senders' = OthersOff(h) (+) One([h EXCEPT !.pc = "awaiting"])
          /\ UNCHANGED creatingOffscreen
       ELSE IF creatingOffscreen = "rejected" THEN
          /\ senders' = OthersOff(h) (+) Live(Replied(h, Fault(h.kind, "createDocument failed")))
          /\ UNCHANGED creatingOffscreen
       ELSE
          /\ creatingOffscreen' = "pending"
          /\ senders' = OthersOff(h) (+) One([h EXCEPT !.pc = "creating"])
    /\ UNCHANGED <<docExists, engine, isLoading, isLoaded, modelReady,
                   isGenerating, loadSent, gmail>>
    /\ UNCHANGED notOff

\* chrome.offscreen.createDocument settles (part_004 lines 26-35).  It can
\* succeed only while no document exists.  On success the creator clears
\* creatingOffscreen and it and the callers awaiting the promise go on to
\* chrome.runtime.sendMessage; on rejection all of them throw and the
\* rejected promise stays in creatingOffscreen.
CreateDocumentDone(h) ==
    /\ h.pc = "creating"
    /\ \/ /\ ~docExists
          /\ docExists' = TRUE
          /\ creatingOffscreen' = "null"
          /\ senders' =
                BagOfAll(LAMBDA q : IF q.pc = "awaiting" THEN [q EXCEPT !.pc = "sent"] ELSE q,
                         OthersOff(h))
                (+) One([h EXCEPT !.pc = "sent"])
       \/ /\ creatingOffscreen' = "rejected"
          /\ senders' =
                LiveOnes(BagOfAll(
                    LAMBDA q : IF q.pc = "awaiting"
                               THEN Replied(q, Fault(q.kind, "createDocument failed"))
                               ELSE q,
                    OthersOff(h)))
                (+) Live(Replied(h, Fault(h.kind, "createDocument failed")))
          /\ UNCHANGED docExists
    /\ UNCHANGED <<engine, isLoading, isLoaded, modelReady, isGenerating,
                   loadSent, gmail>>
    /\ UNCHANGED notOff

\* The offscreen host's answer as sendToOffscreen returns it.
Answered(h, a) == [h EXCEPT !.answer = a, !.pc = "answered"]

\* handleMessage's catch: { success: false, error }.
Failure(msg) == [NoReply EXCEPT !.type = "failure", !.error = msg]

\* The caller of initializeEngine resumes with the value e it returned:
\* load_model answers { success: true, loaded: true }; generateResponse calls
\* llm.chat.completions.create inside its try block, a TypeError on null.
ResumeOff(h, e) ==
    LET g == [h EXCEPT !.llm = e] IN
    IF h.kind = "load_model" THEN Answered(g, LoadedReply)
    ELSE IF e = Null THEN Answered(g, Failure("TypeError"))
    ELSE [g EXCEPT !.pc = "completing"]

\* The message reaches the offscreen host (offscreen.js lines 160-191):
\* check_status answers from the flags, load_model and generate call
\* initializeEngine (lines 47-56), which returns the engine, waits on
\* isLoading, or raises isLoading and calls CreateMLCEngine.
\* handleMessage with a check_status case that makes sure of an engine
\* before it answers, as the load_model case does.
handleMessageStatusLoads(h) ==
    /\ h.pc = "sent"
    /\ IF engine # Null THEN
          /\ IF OffType(h.kind) = "check_status"
             THEN senders' = OthersOff(h) (+) One(Answered(h,
                     [NoReply EXCEPT !.type = "status", !.loaded = isLoaded,
                                     !.loading = isLoading]))
             ELSE senders' = OthersOff(h) (+) One(ResumeOff(h, engine))
          /\ UNCHANGED isLoading
       ELSE IF isLoading THEN
          /\ senders' = OthersOff(h) (+) One([h EXCEPT !.pc = "wait"])
          /\ UNCHANGED isLoading
       ELSE
          /\ isLoading' = TRUE
          /\ senders' = OthersOff(h) (+) One([h EXCEPT !.pc = "loading"])
    /\ UNCHANGED <<creatingOffscreen, docExists, engine, isLoaded, modelReady,
                   isGenerating, loadSent, gmail>>
    /\ UNCHANGED notOff

handleMessage(h) ==
    /\ h.pc = "sent"
    /\ IF OffType(h.kind) = "check_status" THEN
          /\ senders' = OthersOff(h) (+) One(Answered(h,
                [NoReply EXCEPT !.type = "status", !.loaded = isLoaded,
                                !.loading = isLoading]))
          /\ UNCHANGED isLoading
       ELSE IF engine # Null THEN
          /\ senders' = OthersOff(h) (+) One(ResumeOff(h, engine))
          /\ UNCHANGED isLoading
       ELSE IF isLoading THEN
          /\ senders' = OthersOff(h) (+) One([h EXCEPT !.pc = "wait"])
          /\ UNCHANGED isLoading
       ELSE
          /\ isLoading' = TRUE
          /\ senders' = OthersOff(h) (+) One([h EXCEPT !.pc = "loading"])
    /\ UNCHANGED <<creatingOffscreen, docExists, engine, isLoaded, modelReady,
                   isGenerating, loadSent, gmail>>
    /\ UNCHANGED notOff

\* CreateMLCEngine settles (offscreen.js lines 61-81).
initializeEngine(h) ==
    /\ h.pc = "loading"
    /\ isLoading' = FALSE
    /\ \/ /\ engine' = 1
          /\ isLoaded' = TRUE
          /\ senders' = OthersOff(h) (+) One(ResumeOff(h, 1))
       \/ /\ senders' = OthersOff(h) (+) One(Answered(h, Failure("engine failed")))
          /\ UNCHANGED <<engine, isLoaded>>
    /\ UNCHANGED <<creatingOffscreen, docExists, modelReady, isGenerating,
                   loadSent, gmail>>
    /\ UNCHANGED notOff

\* The 100 ms timer of initializeEngine's waiting loop fires with isLoading
\* down (offscreen.js lines 50-53): return engine, whatever it is now.
EngineWaitPoll(h) ==
    /\ h.pc = "wait"
    /\ ~isLoading
    /\ senders' = OthersOff(h) (+) One(ResumeOff(h, engine))
    /\ UNCHANGED <<creatingOffscreen, docExists, engine, isLoading, isLoaded,
                   modelReady, isGenerating, loadSent, gmail>>
    /\ UNCHANGED notOff

\* llm.chat.completions.create settles (offscreen.js lines 105-141, 181-194).
CompletionDone(h) ==
    /\ h.pc = "completing"
    /\ \/ \E g \in CompletionResult :
            LET r == g[2] IN
            senders' = OthersOff(h) (+) One(Answered(h,
                [NoReply EXCEPT !.type = "success", !.response = r.response,
                                !.action = r.action]))
       \/ senders' = OthersOff(h) (+) One(Answered(h, Failure("generation failed")))
    /\ UNCHANGED <<creatingOffscreen, docExists, engine, isLoading, isLoaded,
                   modelReady, isGenerating, loadSent, gmail>>
    /\ UNCHANGED notOff

\* part_004's handler resumes with the offscreen host's answer: load_model
\* and check_status pass it on (lines 93-100), chat calls executeAction when
\* result.action is truthy (lines 115-125), the context menu alerts.
OffscreenAnswered(h) ==
    /\ h.pc = "answered"
    /\ LET a == h.answer IN
       senders' = OthersOff(h) (+) Live(
          IF h.kind = "menu" THEN Replied(h, [a EXCEPT !.type = "alert"])
          ELSE IF h.kind # "chat" \/ a.action = NoAction THEN Replied(h, a)
          ELSE IF executeActionReturnsNull(a.action)
          THEN Replied([h EXCEPT !.actionResult = "null"],
                       [a EXCEPT !.actionResult = "null"])
          ELSE [h EXCEPT !.pc = "exec"])
    /\ UNCHANGED <<creatingOffscreen, docExists, engine, isLoading, isLoaded,
                   modelReady, isGenerating, loadSent, gmail>>
    /\ UNCHANGED notOff

\* executeAction's sendToContentScript settles (part_004 lines 68-71, 116).
OffExecDone(h) ==
    /\ h.pc = "exec"
    /\ LET a  == h.answer.action
           ar == sendToContentScript(a.action)
           g  == [h EXCEPT !.actionResult = ar,
                           !.dispatched = tabsSendMessage(@, a.action, paramsOrEmpty(a))]
       IN  senders' = OthersOff(h) (+) One(Replied(g, [h.answer EXCEPT !.actionResult = ar]))
    /\ UNCHANGED <<creatingOffscreen, docExists, engine, isLoading, isLoaded,
                   modelReady, isGenerating, loadSent, gmail>>
    /\ UNCHANGED notOff

\* popup.js loadModel, lines 55-66.
OffPopupLoadReply(h) ==
    /\ h.pc = "replied" /\ h.kind = "load_model"
    /\ modelReady' = (modelReady \/ h.reply.type = "success" \/ h.reply.loaded)
    /\ senders' = OthersOff(h)
    /\ UNCHANGED <<creatingOffscreen, docExists, engine, isLoading, isLoaded,
                   isGenerating, loadSent, gmail>>
    /\ UNCHANGED notOff

\* generateResponse with the statements of its finally block at the end of
\* the success branch: an error envelope leaves the popup busy.
OffPopupChatReplyNoFinally(h) ==
    /\ h.pc = "replied" /\ h.kind = "chat"
    /\ isGenerating' = (h.reply.type # "success")
    /\ senders' = OthersOff(h)
    /\ UNCHANGED <<creatingOffscreen, docExists, engine, isLoading, isLoaded,
                   modelReady, loadSent, gmail>>
    /\ UNCHANGED notOff

\* popup.js generateResponse, lines 236-259.
OffPopupChatReply(h) ==
    /\ h.pc = "replied" /\ h.kind = "chat"
    /\ isGenerating' = FALSE
    /\ senders' = OthersOff(h)
    /\ UNCHANGED <<creatingOffscreen, docExists, engine, isLoading, isLoaded,
                   modelReady, loadSent, gmail>>
    /\ UNCHANGED notOff

OffFinish(h) ==
    /\ h.pc = "replied" /\ h.kind \in OtherActions
    /\ senders' = OthersOff(h)
    /\ UNCHANGED <<creatingOffscreen, docExists, engine, isLoading, isLoaded,
                   modelReady, isGenerating, loadSent, gmail>>
    /\ UNCHANGED notOff

\* chrome.runtime.sendMessage of popup.js line 236 rejects (no listener took
\* the message: 'Could not establish connection'); the catch of lines
\* 250-252 shows the error and the finally block of 254-259 runs.
ChatSendRejected(h) ==
    /\ h.pc = "ctx" /\ h.kind = "chat"
    /\ isGenerating' = FALSE
    /\ senders' = OthersOff(h)
    /\ UNCHANGED <<creatingOffscreen, docExists, engine, isLoading, isLoaded,
                   modelReady, loadSent, gmail>>
    /\ UNCHANGED notOff

\* A step of an invocation of part_004's handler or of the offscreen host:
\* an awaited call settles and the code runs on to the next await.
Settles(h) ==
    \/ OffChatContext(h)
    \/ QueryAnswered(h)
    \/ setupOffscreenDocument(h)
    \/ CreateDocumentDone(h)
    \/ handleMessage(h)
    \/ initializeEngine(h)
    \/ EngineWaitPoll(h)
    \/ CompletionDone(h)
    \/ OffscreenAnswered(h)
    \/ OffExecDone(h)
    \/ OffPopupLoadReply(h)
    \/ OffPopupChatReply(h)

\* The WebLLM popup and its background: load_model and chat requests, with
\* context-menu analyses using the offscreen host at the same time.
NextPair ==
    \/ OffPopupLoadModel
    \/ OffPopupSend
    \/ OffMenuClick
    \/ \E h \in OH :
        \/ ChatSendRejected(h)
        \/ Settles(h)

NextOff ==
    \/ OffPopupLoadModel
    \/ OffPopupSend
    \/ OffMenuClick
    \/ \E k \in OtherActions : OffMessage(k)
    \/ \E h \in OH :
        \/ OffChatContext(h)
        \/ OffEmailsDone(h)
        \/ QueryAnswered(h)
        \/ setupOffscreenDocument(h)
        \/ CreateDocumentDone(h)
        \/ handleMessage(h)
        \/ initializeEngine(h)
        \/ EngineWaitPoll(h)
        \/ CompletionDone(h)
        \/ OffscreenAnswered(h)
        \/ OffExecDone(h)
        \/ OffPopupLoadReply(h)
        \/ OffPopupChatReply(h)
        \/ OffFinish(h)

\* =========================================================== SpecChannel
\* The runtime channel of the WebLLM build.  chrome.runtime.sendMessage
\* hands a message to the onMessage listeners of the extension's other
\* pages; the page that sent it does not get it.  A message is
\*   target  message.target ("" when the message has none)
\*   name    message.type of a tagged or progress message, message.action
\*           of a popup message
\* and an entry of the channel holds, besides the message,
\*   bg      the background listener: "waiting" (not run yet), "sender",
\*           "ignored" (returned at line 82), "forwarded" (line 88), "ctx" /
\*           "tab" / "setup" / "awaiting" (suspended at an await), "done"
\*   off     the offscreen listener: "waiting", "sender", "ignored"
\*           (returned at line 162), "handling", "done"
\*   sent    the entry of the message this handler sent to the offscreen host
\*   answers the sendResponse calls made for it, in order
RuntimeMessage(target, name) == [target |-> target, name |-> name]

Entry(m, bg, off) == [msg |-> m, bg |-> bg, off |-> off, sent |-> 0, answers |-> <<>>]

Answer(by, reply) == [by |-> by, reply |-> reply]

\* What the pages post: the popup its actions (popup.js 55, 236) and a name
\* no switch knows, the offscreen host its progress reports (offscreen.js
\* 65-68), and any page a tagged message, of a known type or not.
PagePosts ==
    {Entry(RuntimeMessage("", a), "waiting", "waiting") :
        a \in {"load_model", "check_status", "chat", "get_emails", "bogus"}}
    \cup {Entry(RuntimeMessage("", "model_progress"), "waiting", "sender")}
    \cup {Entry(RuntimeMessage("offscreen", t), "waiting", "waiting") :
             t \in {"load_model", "check_status", "generate", "bogus"}}

InitChannel == channel = <<>>

\* The listeners are done with an entry.
Settled(e) ==
    /\ e.bg \in {"sender", "ignored", "forwarded", "done"}
    /\ e.off \in {"sender", "ignored", "done"}

\* A page calls chrome.runtime.sendMessage.
runtimeSendMessage ==
    /\ build = "webllm"
    /\ channel = <<>>
    /\ \E e \in PagePosts : channel' = <<e>>
    /\ UNCHANGED notChannel

\* The background's listener, part_004 lines 79-145, up to its first await:
\* tagged messages are left alone, progress reports are sent on to the
\* popup, the default case answers at once.
backgroundListener(i) ==
    LET e == channel[i] IN
    /\ e.bg = "waiting"
    /\ IF e.msg.target = "offscreen" THEN
          channel' = [channel EXCEPT ![i].bg = "ignored"]
       ELSE IF e.msg.name = "model_progress" THEN
          channel' = Append([channel EXCEPT ![i].bg = "forwarded"],
                            Entry(e.msg, "sender", "waiting"))
       ELSE IF e.msg.name \in {"load_model", "check_status"} THEN
          channel' = [channel EXCEPT ![i].bg = "setup"]
       ELSE IF e.msg.name = "chat" THEN
          channel' = [channel EXCEPT ![i].bg = "ctx"]
       ELSE IF e.msg.name = "get_emails" THEN
          channel' = [channel EXCEPT ![i].bg = "tab"]
       ELSE
          channel' = [channel EXCEPT ![i].bg = "done",
                         ![i].answers = Append(@, Answer("background", "error"))]
    /\ UNCHANGED notChannel

\* sendToContentScript settles (part_004 lines 106, 130-131): chat goes on
\* to sendToOffscreen, get_emails answers.
ContentAnswered(i) ==
    LET e == channel[i] IN
    /\ e.bg \in {"ctx", "tab"}
    /\ IF e.bg = "ctx"
       THEN channel' = [channel EXCEPT ![i].bg = "setup"]
       ELSE channel' = [channel EXCEPT ![i].bg = "done",
                           ![i].answers = Append(@, Answer("background", "data"))]
    /\ UNCHANGED notChannel

\* sendToOffscreen, part_004 lines 39-46: setupOffscreenDocument returns and
\* the tagged message is sent, or it throws and the catch of lines 138-141
\* answers.
sendToOffscreen(i) ==
    LET e == channel[i] IN
    /\ e.bg = "setup"
    /\ \/ channel' = Append([channel EXCEPT ![i].bg = "awaiting",
                                            ![i].sent = Len(channel) + 1],
                            Entry(RuntimeMessage("offscreen", OffType(e.msg.name)),
                                  "sender", "waiting"))
       \/ channel' = [channel EXCEPT ![i].bg = "done",
                         ![i].answers = Append(@, Answer("background", "error"))]
    /\ UNCHANGED notChannel

\* The offscreen host's listener with no test of the tag.
offscreenListenerUntagged(i) ==
    /\ channel[i].off = "waiting"
    /\ channel' = [channel EXCEPT ![i].off = "handling"]
    /\ UNCHANGED notChannel

\* The offscreen host's listener, offscreen.js lines 160-167.
offscreenListener(i) ==
    LET e == channel[i] IN
    /\ e.off = "waiting"
    /\ channel' = [channel EXCEPT ![i].off =
                      IF e.msg.target # "offscreen" THEN "ignored" ELSE "handling"]
    /\ UNCHANGED notChannel

\* What handleMessage resolves with, offscreen.js lines 169-196.
HandleMessageResults(type) ==
    CASE type \in {"load_model", "generate"} -> {"success", "failure"}
      [] type = "check_status" -> {"status"}
      [] OTHER -> {"error"}

\* handleMessage's promise resolves and .then(sendResponse) runs (line 165).
handleMessageSettles(i) ==
    LET e == channel[i] IN
    /\ e.off = "handling"
    /\ \E r \in HandleMessageResults(e.msg.name) :
          channel' = [channel EXCEPT ![i].off = "done",
                         ![i].answers = Append(@, Answer("offscreen", r))]
    /\ UNCHANGED notChannel

\* The background's handler resumes with the answer to the message it sent
\* (undefined when no listener answered) and calls sendResponse: lines 93-94,
\* 99-100, 109-126; reading result.action of undefined throws into the catch.
OffscreenReplied(i) ==
    LET e == channel[i]
        s == channel[e.sent]
    IN
    /\ e.bg = "awaiting"
    /\ Settled(s)
    /\ LET r == IF s.answers = <<>>
                THEN (IF e.msg.name = "chat" THEN "error" ELSE "undefined")
                ELSE s.answers[1].reply
       IN  channel' = [channel EXCEPT ![i].bg = "done",
                          ![i].answers = Append(@, Answer("background", r))]
    /\ UNCHANGED notChannel

\* Every listener is done with every message: the channel is quiet again.
ChannelQuiet ==
    /\ channel # <<>>
    /\ \A i \in DOMAIN channel : Settled(channel[i])
    /\ channel' = <<>>
    /\ UNCHANGED notChannel

NextChannel ==
    \/ runtimeSendMessage
    \/ ChannelQuiet
    \/ \E i \in DOMAIN channel :
        \/ backgroundListener(i)
        \/ ContentAnswered(i)
        \/ sendToOffscreen(i)
        \/ offscreenListener(i)
        \/ handleMessageSettles(i)
        \/ OffscreenReplied(i)

\* ========================================================== SpecProgress
\* updateLoadProgress of the WebLLM popup, popup.js lines 74-141, for the
\* per-file progress objects {status, file, loaded, total} (lines 100-139).
ProgressFiles == {"a.bin", "b.bin"}

\* A progress object; sizes are in units of MaxBytes-th parts of the largest
\* file, and no more is loaded of a file than it has.
Progress(status, file, loaded, total) ==
    [status |-> status, file |-> file, loaded |-> loaded, total |-> total]

ProgressObjects ==
    {p \in {Progress("progress", f, l, t) :
                f \in ProgressFiles, l \in 0..MaxBytes, t \in 0..MaxBytes} :
        p.loaded <= p.total}
    \cup {Progress(st, f, 0, 0) : st \in {"initiate", "done"}, f \in ProgressFiles}

InitProgress ==
    /\ downloadProgress = << >>
    /\ progressFill = [width |-> 0, indeterminate |-> TRUE]
    /\ progressEvents = <<>>

\* The sum of g[k].loaded (or .total) over the keys of the Map g.
RECURSIVE SumOf(_, _, _)
SumOf(g, field, keys) ==
    IF keys = {} THEN 0
    ELSE LET k == CHOOSE x \in keys : TRUE
         IN  g[k][field] + SumOf(g, field, keys \ {k})

\* Math.round((overallLoaded / overallTotal) * 100), line 118: Math.round
\* rounds to the nearest integer, halves upwards.
MathRoundPercent(loaded, total) == (200 * loaded + total) \div (2 * total)

\* downloadProgress.set(key, value), line 106.
MapSet(g, key, value) ==
    [k \in DOMAIN g \cup {key} |-> IF k = key THEN value ELSE g[k]]

\* updateLoadProgress showing the file of the event alone.
updateLoadProgressPerFile ==
    /\ build = "popup-webllm" /\ Len(progressEvents) < MaxEvents
    /\ \E p \in ProgressObjects :
          /\ progressEvents' = Append(progressEvents, p)
          /\ IF p.status = "progress" /\ p.total > 0 THEN
                /\ downloadProgress' = MapSet(downloadProgress, p.file,
                                              [loaded |-> p.loaded, total |-> p.total])
                /\ progressFill' = [width |-> MathRoundPercent(p.loaded, p.total),
                                    indeterminate |-> FALSE]
             ELSE
                /\ UNCHANGED <<downloadProgress, progressFill>>
    /\ UNCHANGED notProgress

\* updateLoadProgress(progress), lines 100-139, for one progress object.
updateLoadProgress ==
    /\ build = "popup-webllm" /\ Len(progressEvents) < MaxEvents
    /\ \E p \in ProgressObjects :
          /\ progressEvents' = Append(progressEvents, p)
          /\ IF p.status = "progress" /\ p.total > 0 THEN
                LET g == MapSet(downloadProgress, p.file,
                                [loaded |-> p.loaded, total |-> p.total])
                    overallLoaded == SumOf(g, "loaded", DOMAIN g)
                    overallTotal  == SumOf(g, "total", DOMAIN g)
                IN  /\ downloadProgress' = g
                    /\ progressFill' =
                          [width |-> MathRoundPercent(overallLoaded, overallTotal),
                           indeterminate |-> FALSE]
             ELSE IF p.status = "done" THEN
                /\ progressFill' = [width |-> 100, indeterminate |-> FALSE]
                /\ UNCHANGED downloadProgress
             ELSE IF p.status = "initiate" THEN
                /\ progressFill' = [progressFill EXCEPT !.indeterminate = TRUE]
                /\ UNCHANGED downloadProgress
             ELSE
                /\ UNCHANGED <<downloadProgress, progressFill>>
    /\ UNCHANGED notProgress

NextProgress == updateLoadProgress

\* ============================================================ SpecPipe
\* The Transformers.js background: src/unnamed/part_001 (build "ts") and
\* src/src/background.js 566-713 (build "js"; lines 262-394 and 395-565 have
\* the same classify handler), with the sentiment popup src/src/popup.ts
\* (src/src/popup.js 949-1092 is the same popup in JavaScript).

\* The pipelines: TextClassifier / TextPipelineSingleton and ImageOCR /
\* ImagePipelineSingleton.
EngineKinds == {"text", "image"}

\* An invocation of the background's message handler or context-menu handler:
\*   kind    "warmup" (initializeModel's classify), "analyze" (handleAnalyze's
\*           classify), "analyze-image", or "menu"
\*   pc      "instance" (await getInstance()), "infer" (await model(...)),
\*           "replied", or "unanswered" (the handler ended without sendResponse)
\*   fault   the error the engine call rejected with
\*   reply   what sendResponse was called with
NewRequest(k) == [kind |-> k, pc |-> "start", fault |-> "", reply |-> NoReply]

RQ == BagToSet(requests)
OthersPipe(h) == requests (-) One(h)
InProgressPipe == BagCardinality(requests)

InitPipe ==
    /\ instance = [e \in EngineKinds |-> "null"]
    /\ pipelineCalls = [e \in EngineKinds |-> 0]
    /\ requests = EmptyBag
    /\ isAnalyzing = FALSE
    /\ statusBadge = ""

\* classifyText uses TextClassifier, extractTextFromImage uses ImageOCR.
EngineOf(k) == IF k = "analyze-image" THEN "image" ELSE "text"

\* Whether the handler of a request of kind k has a catch that answers:
\* part_001 lines 152-172 wrap the whole switch; background.js wraps
\* analyze-image (lines 698-708) but not classify (lines 664-671).
Catches(k) == build = "ts" \/ k = "analyze-image"

\* The engine call of h rejected with msg.  The context-menu handler has
\* nobody to answer; a message handler answers { success: false, error }
\* from its catch, or ends without an answer when it has none.
Faulted(h, msg) ==
    IF h.kind = "menu" THEN [h EXCEPT !.fault = msg, !.pc = "replied"]
    ELSE IF Catches(h.kind)
    THEN Replied([h EXCEPT !.fault = msg], [NoReply EXCEPT !.type = "failure",
                                                          !.error = msg])
    ELSE [h EXCEPT !.fault = msg, !.pc = "unanswered"]

\* getInstance that calls pipeline() again after a rejected load.
getInstanceRetries(h, rest) ==
    LET e == EngineOf(h.kind) IN
    CASE instance[e] \in {"null", "rejected"} ->
            /\ instance' = [instance EXCEPT ![e] = "pending"]
            /\ pipelineCalls' = [pipelineCalls EXCEPT ![e] = @ + 1]
            /\ requests' = rest (+) One([h EXCEPT !.pc = "instance"])
      [] instance[e] = "pending" ->
            /\ requests' = rest (+) One([h EXCEPT !.pc = "instance"])
            /\ UNCHANGED <<instance, pipelineCalls>>
      [] OTHER ->
            /\ requests' = rest (+) One([h EXCEPT !.pc = "infer"])
            /\ UNCHANGED <<instance, pipelineCalls>>

\* getInstance (part_001 lines 39-44, background.js lines 575-578) as called
\* by h while the other invocations are rest: pipeline() is called when no
\* promise is stored, then the stored promise is awaited.
getInstance(h, rest) ==
    LET e == EngineOf(h.kind) IN
    CASE instance[e] = "null" ->
            /\ instance' = [instance EXCEPT ![e] = "pending"]
            /\ pipelineCalls' = [pipelineCalls EXCEPT ![e] = @ + 1]
            /\ requests' = rest (+) One([h EXCEPT !.pc = "instance"])
      [] instance[e] = "pending" ->
            /\ requests' = rest (+) One([h EXCEPT !.pc = "instance"])
            /\ UNCHANGED <<instance, pipelineCalls>>
      [] instance[e] = "resolved" ->
            /\ requests' = rest (+) One([h EXCEPT !.pc = "infer"])
            /\ UNCHANGED <<instance, pipelineCalls>>
      [] OTHER ->
            /\ requests' = rest (+) Live(Faulted(h, "load failed"))
            /\ UNCHANGED <<instance, pipelineCalls>>

\* popup.ts initializeModel, lines 96-104: the badge shows 'loading' and a
\* test classification is sent.
initializeModel ==
    /\ ~loadSent /\ InProgressPipe < NProc
    /\ loadSent' = TRUE
    /\ statusBadge' = "loading"
    /\ getInstance(NewRequest("warmup"), requests)
    /\ UNCHANGED <<modelReady, isAnalyzing>>
    /\ UNCHANGED notPipe

\* popup.ts handleAnalyze, lines 135-150, behind its guard.
handleAnalyze ==
    /\ modelReady /\ ~isAnalyzing /\ InProgressPipe < NProc
    /\ isAnalyzing' = TRUE
    /\ getInstance(NewRequest("analyze"), requests)
    /\ UNCHANGED <<modelReady, loadSent, statusBadge>>
    /\ UNCHANGED notPipe

\* An analyze-image message (part_001 lines 162-165, background.js 698-708).
analyzeImageMessage ==
    /\ InProgressPipe < NProc
    /\ getInstance(NewRequest("analyze-image"), requests)
    /\ UNCHANGED <<modelReady, loadSent, isAnalyzing, statusBadge>>
    /\ UNCHANGED notPipe

\* contextMenus.onClicked (part_001 lines 123-143, background.js 638-656).
PipeMenuClick ==
    /\ InProgressPipe < NProc
    /\ getInstance(NewRequest("menu"), requests)
    /\ UNCHANGED <<modelReady, loadSent, isAnalyzing, statusBadge>>
    /\ UNCHANGED notPipe

\* PipelineSettled with a getInstance that drops the stored promise when it
\* rejects, so that the next caller loads again.
PipelineSettledForgets(e) ==
    /\ instance[e] = "pending"
    /\ \/ /\ instance' = [instance EXCEPT ![e] = "resolved"]
          /\ requests' = BagOfAll(
                LAMBDA q : IF q.pc = "instance" /\ EngineOf(q.kind) = e
                           THEN [q EXCEPT !.pc = "infer"] ELSE q,
                requests)
       \/ /\ instance' = [instance EXCEPT ![e] = "null"]
          /\ requests' = LiveOnes(BagOfAll(
                LAMBDA q : IF q.pc = "instance" /\ EngineOf(q.kind) = e
                           THEN Faulted(q, "load failed") ELSE q,
                requests))
    /\ UNCHANGED <<pipelineCalls, modelReady, loadSent, isAnalyzing, statusBadge>>
    /\ UNCHANGED notPipe

\* The promise pipeline() returned for engine kind e settles; every
\* invocation awaiting it goes on to its model call, or faults.
PipelineSettled(e) ==
    /\ instance[e] = "pending"
    /\ \/ /\ instance' = [instance EXCEPT ![e] = "resolved"]
          /\ requests' = BagOfAll(
                LAMBDA q : IF q.pc = "instance" /\ EngineOf(q.kind) = e
                           THEN [q EXCEPT !.pc = "infer"] ELSE q,
                requests)
       \/ /\ instance' = [instance EXCEPT ![e] = "rejected"]
          /\ requests' = LiveOnes(BagOfAll(
                LAMBDA q : IF q.pc = "instance" /\ EngineOf(q.kind) = e
                           THEN Faulted(q, "load failed") ELSE q,
                requests))
    /\ UNCHANGED <<pipelineCalls, modelReady, loadSent, isAnalyzing, statusBadge>>
    /\ UNCHANGED notPipe

\* The model call of h settles (part_001 lines 60-74): classify answers the
\* result array, analyze-image { success: true, analysis }, the context
\* menu shows an alert.
InferDone(h) ==
    /\ h.pc = "infer"
    /\ \/ requests' = OthersPipe(h) (+) Live(Replied(h,
              [NoReply EXCEPT !.type = IF h.kind = "analyze-image"
                                       THEN "success" ELSE "result"]))
       \/ requests' = OthersPipe(h) (+) Live(Faulted(h, "inference failed"))
    /\ UNCHANGED <<instance, pipelineCalls, modelReady, loadSent, isAnalyzing,
                   statusBadge>>
    /\ UNCHANGED notPipe

\* popup.ts initializeModel, lines 106-109: sendMessage has resolved.
WarmupAnswered(h) ==
    /\ h.kind = "warmup" /\ h.pc = "replied"
    /\ modelReady' = TRUE
    /\ statusBadge' = "ready"
    /\ requests' = OthersPipe(h)
    /\ UNCHANGED <<instance, pipelineCalls, loadSent, isAnalyzing>>
    /\ UNCHANGED notPipe

\* popup.ts handleAnalyze, lines 151-162: sendMessage has resolved.
AnalyzeAnswered(h) ==
    /\ h.kind = "analyze" /\ h.pc = "replied"
    /\ isAnalyzing' = FALSE
    /\ requests' = OthersPipe(h)
    /\ UNCHANGED <<instance, pipelineCalls, modelReady, loadSent, statusBadge>>
    /\ UNCHANGED notPipe

\* The answer to an analyze-image message arrives at its sender.
PipeFinish(h) ==
    /\ h.kind = "analyze-image" /\ h.pc = "replied"
    /\ requests' = OthersPipe(h)
    /\ UNCHANGED <<instance, pipelineCalls, modelReady, loadSent, isAnalyzing,
                   statusBadge>>
    /\ UNCHANGED notPipe

\* The browser closes the channel of a message that was never answered:
\* the sender's sendMessage rejects (popup.ts lines 110-113, 157-162).
ChannelClosed(h) ==
    /\ h.pc = "unanswered"
    /\ requests' = OthersPipe(h)
    /\ statusBadge' = IF h.kind = "warmup" THEN "error" ELSE statusBadge
    /\ isAnalyzing' = IF h.kind = "analyze" THEN FALSE ELSE isAnalyzing
    /\ UNCHANGED <<instance, pipelineCalls, modelReady, loadSent>>
    /\ UNCHANGED notPipe

NextPipe ==
    \/ initializeModel
    \/ handleAnalyze
    \/ analyzeImageMessage
    \/ PipeMenuClick
    \/ \E e \in EngineKinds : PipelineSettled(e)
    \/ \E h \in RQ :
        \/ InferDone(h)
        \/ WarmupAnswered(h)
        \/ AnalyzeAnswered(h)
        \/ PipeFinish(h)
        \/ ChannelClosed(h)

\* ============================================================== SpecUI
\* The chat popups.  A message element records the generateResponse call
\* that created it (owner), the calls that wrote into it (writers) and the
\* kind of text it shows.  A generateResponse call is known by its position
\* in chats:
\*   pc        the await it is at; "late" after its timeout fired while the
\*             engine call is still in flight; "done" when it is over
\*   msgEl     the message element it created (const msgEl, popup.js:768;
\*             the value it stored in streamingMessage, popup.js:226)
\*   session   the session its prompt() call was made on
\*   timedOut  its 30 s timer won the race
\*   port      the 'chat_stream' port: "none", "open", "disconnected"
\*   stage     the frames the server has sent: "chunks", "action", "ended"
\*   failure   how its prompt() call rejected: "none", or the kind of the
\*             error message -- "session", "rate", "other"
NewChat(el) ==
    [pc |-> "start", msgEl |-> el, session |-> Null, timedOut |-> FALSE,
     port |-> "none", stage |-> "none", failure |-> "none"]

\* addMessage('', 'assistant', true) by call i.
NewMessage(i) == [owner |-> i, writers |-> {}, text |-> "typing"]

\* Call i sets the innerHTML of element el; updateStreamingMessage and
\* finalizeStreamingMessage do nothing when streamingMessage is null.
Write(ms, el, i, text) ==
    IF el = 0 THEN ms
    ELSE [ms EXCEPT ![el] = [@ EXCEPT !.writers = @ \cup {i}, !.text = text]]

NoClicks == [last |-> "none", userMessages |-> 0]

\* The buttons and the badge as the popup opens.
Affordances(sendBtn, quickActions, badge) ==
    [sendBtn |-> sendBtn, quickActions |-> quickActions, badge |-> badge,
     detail |-> "", input |-> FALSE]

UIIdle ==
    /\ aiReady = FALSE
    /\ clicks = NoClicks
    /\ affordances = Affordances(FALSE, FALSE, "")
    /\ streamingMessage = 0
    /\ messages = <<>>
    /\ chats = <<>>
    /\ initPc = "unstarted"
    /\ availability = "unset"

InitUI == UIIdle /\ useStreaming = FALSE

\* ------------------------------------------- popup.js 1-405 (WebLLM popup)
\* loadModel, lines 48-55: load_model is sent.
loadModel ==
    /\ build = "popup-webllm" /\ initPc = "unstarted"
    /\ initPc' = "load_model"
    /\ loadSent' = TRUE
    /\ UNCHANGED <<aiSession, created, isGenerating, modelReady, aiReady,
                   streamingMessage, messages, chats>>
    /\ UNCHANGED notUI

\* loadModel, lines 55-72: the answer (or the rejection) arrives.
loadModelAnswered ==
    /\ initPc = "load_model"
    /\ \E r \in {"success", "loaded", "error", "none", "rejected"} :
          modelReady' = (r \in {"success", "loaded"})
    /\ initPc' = "idle"
    /\ UNCHANGED <<aiSession, created, isGenerating, loadSent, aiReady,
                   streamingMessage, messages, chats>>
    /\ UNCHANGED notUI

\* addMessage(text, 'user') of lines 195 and 216, then generateResponse,
\* lines 222-226 and the branch of lines 232-238, run by a trigger that
\* found the popup in the state ok.
startGenerate(ok) ==
    /\ build = "popup-webllm" /\ ok /\ Len(chats) < MaxRequests
    /\ clicks' = [last |-> "started", userMessages |-> clicks.userMessages + 1]
    /\ isGenerating' = TRUE
    /\ messages' = Append(messages, NewMessage(Len(chats) + 1))
    /\ streamingMessage' = Len(messages) + 1
    /\ chats' = Append(chats,
          [NewChat(Len(messages) + 1) EXCEPT
              !.pc = IF useStreaming THEN "stream" ELSE "sent",
              !.port = IF useStreaming THEN "open" ELSE "none",
              !.stage = IF useStreaming THEN "chunks" ELSE "none"])
    /\ UNCHANGED <<aiSession, created, modelReady, loadSent, aiReady, initPc>>
    /\ UNCHANGED notClick

\* The early return of lines 193 and 207, taken by a trigger that found
\* the popup in the state ~ok; echoed is the number of user messages the
\* trigger has added by then.
returnEarly(ok, echoed) ==
    /\ build = "popup-webllm" /\ ~ok
    /\ clicks' = [last |-> "dropped",
                  userMessages |-> Min({clicks.userMessages + echoed, MaxRequests + 1})]
    /\ UNCHANGED <<aiSession, created, isGenerating, modelReady, loadSent, aiReady,
                   streamingMessage, messages, chats, initPc>>
    /\ UNCHANGED notClick

\* handleSend / handleQuickAction without their guard.
handleSendUnguarded == startGenerate(modelReady)

\* handleSend / handleQuickAction with addMessage(text, 'user') before the
\* guard instead of after it.
handleSendEchoes ==
    \E text \in BOOLEAN :
        \/ startGenerate(text /\ modelReady /\ ~isGenerating)
        \/ returnEarly(text /\ modelReady /\ ~isGenerating, IF text THEN 1 ELSE 0)

\* handleSend / handleQuickAction, lines 191-218: a click or the Enter key,
\* text saying that the input holds something to send (a quick action
\* always does); the guard of lines 193 and 207.
handleSend ==
    \E text \in BOOLEAN :
        \/ startGenerate(text /\ modelReady /\ ~isGenerating)
        \/ returnEarly(text /\ modelReady /\ ~isGenerating, 0)

\* generateResponse's finally block, lines 254-259, for call i, the message
\* elements being ms by then.
Settle(i, ms) ==
    /\ isGenerating' = FALSE
    /\ streamingMessage' = 0
    /\ messages' = ms

\* generateResponse, lines 240-253: the answer to chat arrives.
chatAnswered(i) ==
    /\ chats[i].pc = "sent"
    /\ \E r \in {"success", "error", "none", "rejected"} :
          Settle(i, IF r = "none" THEN messages
                    ELSE Write(messages, streamingMessage, i,
                               IF r = "success" THEN "response" ELSE "error"))
    /\ chats' = [chats EXCEPT ![i] = [@ EXCEPT !.pc = "done"]]
    /\ UNCHANGED <<aiSession, created, modelReady, loadSent, aiReady, initPc>>
    /\ UNCHANGED notUI

\* generateResponseStreaming, lines 267-280: a frame arrives on the port.
\* The server sends chunks, at most one action frame, then one terminal
\* frame, and nothing after it.
portFrame(i) ==
    /\ chats[i].pc = "stream" /\ chats[i].port = "open"
    /\ chats[i].stage \in {"chunks", "action"}
    /\ \/ /\ chats[i].stage = "chunks"
          /\ messages' = Write(messages, streamingMessage, i, "partial")
          /\ UNCHANGED <<chats, isGenerating, streamingMessage>>
       \/ /\ chats[i].stage = "chunks"
          /\ chats' = [chats EXCEPT ![i] = [@ EXCEPT !.stage = "action"]]
          /\ UNCHANGED <<messages, isGenerating, streamingMessage>>
       \/ /\ Settle(i, messages)
          /\ chats' = [chats EXCEPT ![i] = [@ EXCEPT !.stage = "ended", !.pc = "done"]]
       \/ /\ Settle(i, Write(messages, streamingMessage, i, "error"))
          /\ chats' = [chats EXCEPT ![i] = [@ EXCEPT !.stage = "ended", !.pc = "done"]]
    /\ UNCHANGED <<aiSession, created, modelReady, loadSent, aiReady, initPc>>
    /\ UNCHANGED notUI

\* port.onDisconnect, lines 282-286: the promise is rejected only when
\* chrome.runtime.lastError is set.
portDisconnect(i) ==
    /\ chats[i].port = "open"
    /\ \E lastError \in BOOLEAN :
          IF lastError /\ chats[i].pc = "stream"
          THEN /\ Settle(i, Write(messages, streamingMessage, i, "error"))
               /\ chats' = [chats EXCEPT ![i] =
                               [@ EXCEPT !.port = "disconnected", !.pc = "done"]]
          ELSE /\ chats' = [chats EXCEPT ![i] = [@ EXCEPT !.port = "disconnected"]]
               /\ UNCHANGED <<messages, isGenerating, streamingMessage>>
    /\ UNCHANGED <<aiSession, created, modelReady, loadSent, aiReady, initPc>>
    /\ UNCHANGED notUI

\* ------------------------------------ popup.js 407-947 (built-in-AI popup)
\* initAI, lines 557-574, at DOMContentLoaded or from the timer of line 849.
initAI ==
    /\ build = "popup-ai" /\ initPc \in {"unstarted", "timer"}
    /\ \E api \in BOOLEAN :
          /\ initPc' = IF api THEN "availability" ELSE "idle"
          /\ availability' = IF api THEN "unset" ELSE "no-api"
    /\ UNCHANGED <<aiSession, created, isGenerating, modelReady, loadSent,
                   aiReady, streamingMessage, messages, chats>>
    /\ UNCHANGED <<notInit, clicks, affordances>>

\* What api.availability() reports, or that it throws (lines 582-589); the
\* spellings 'no', 'after-download', 'readily' and 'yes' of lines 596-609
\* share a case with 'unavailable', 'downloadable' and 'available'.
Availabilities == {"throws", "unavailable", "downloading", "downloadable", "available"}

\* initAI going on to api.create() whatever availability() reported.
availabilityDoneTriesAnyway ==
    /\ initPc = "availability"
    /\ \E a \in Availabilities :
          /\ availability' = a
          /\ initPc' = IF a = "throws" THEN "idle" ELSE "create"
    /\ UNCHANGED <<aiSession, created, isGenerating, modelReady, loadSent,
                   aiReady, streamingMessage, messages, chats>>
    /\ UNCHANGED <<notInit, clicks, affordances>>

\* initAI, lines 576-621: api.availability() settles.
availabilityDone ==
    /\ initPc = "availability"
    /\ \E a \in Availabilities :
          /\ availability' = a
          /\ initPc' = IF a \in {"downloadable", "available"} THEN "create" ELSE "idle"
    /\ UNCHANGED <<aiSession, created, isGenerating, modelReady, loadSent,
                   aiReady, streamingMessage, messages, chats>>
    /\ UNCHANGED <<notInit, clicks, affordances>>

\* initAI, lines 623-655: api.create() settles.
createDone ==
    /\ initPc = "create"
    /\ initPc' = "idle"
    /\ \/ /\ created < MaxSessions
          /\ created' = created + 1
          /\ aiSession' = created + 1
          /\ aiReady' = TRUE
       \/ UNCHANGED <<aiSession, created, aiReady>>
    /\ UNCHANGED <<isGenerating, modelReady, loadSent, streamingMessage,
                   messages, chats>>
    /\ UNCHANGED notUI

\* handleSend / handleQuickAction, lines 703-730, then generateResponse,
\* lines 763-772, up to await getEmailContext().
aiHandleSend ==
    /\ build = "popup-ai"
    /\ aiReady /\ ~isGenerating /\ Len(chats) < MaxRequests
    /\ isGenerating' = TRUE
    /\ messages' = Append(messages, NewMessage(Len(chats) + 1))
    /\ chats' = Append(chats, [NewChat(Len(messages) + 1) EXCEPT !.pc = "ctx"])
    /\ UNCHANGED <<aiSession, created, modelReady, loadSent, aiReady,
                   streamingMessage, initPc>>
    /\ UNCHANGED notUI

\* The catch of lines 837-861 for a failure that is neither a session error
\* nor a rate limit, then the finally block of lines 863-869.
GenericError(i, msg) ==
    /\ messages' = Write(messages, chats[i].msgEl, i, msg)
    /\ isGenerating' = FALSE
    /\ chats' = [chats EXCEPT ![i] = [@ EXCEPT !.pc = "done"]]

\* generateResponse, lines 772-803: the context arrives, the prompt is built
\* and aiSession.prompt(prompt) is raced against the 30 s timer.
contextDone(i) ==
    /\ chats[i].pc = "ctx"
    /\ IF aiSession = Null
       THEN GenericError(i, "Error: AI response failed: TypeError")
       ELSE /\ chats' = [chats EXCEPT ![i] =
                            [@ EXCEPT !.pc = "race", !.session = aiSession]]
            /\ UNCHANGED <<messages, isGenerating>>
    /\ UNCHANGED <<aiSession, created, modelReady, loadSent, aiReady,
                   streamingMessage, initPc>>
    /\ UNCHANGED notUI

\* generateResponse, lines 805-835: the prompt resolved before the timer;
\* the text is shown, and executeAction is awaited when an action was parsed.
promptResolved(i) ==
    /\ chats[i].pc = "race"
    /\ messages' = Write(messages, chats[i].msgEl, i, "response")
    /\ \E hasAction \in BOOLEAN :
          IF hasAction
          THEN /\ chats' = [chats EXCEPT ![i] = [@ EXCEPT !.pc = "exec"]]
               /\ UNCHANGED isGenerating
          ELSE /\ chats' = [chats EXCEPT ![i] = [@ EXCEPT !.pc = "done"]]
               /\ isGenerating' = FALSE
    /\ UNCHANGED <<aiSession, created, modelReady, loadSent, aiReady,
                   streamingMessage, initPc>>
    /\ UNCHANGED notUI

\* The text the catch of lines 837-861 shows for an error of the kind.
ErrorText(kind) ==
    CASE kind = "session" -> "Session expired. Reinitializing..."
      [] kind = "rate"    -> "Rate limit reached."
      [] OTHER            -> "Error: AI response failed: rejected"

\* promptRejected with the session branch of the first variant: the handle
\* is dropped and nothing is scheduled.
promptRejectedNoReinit(i) ==
    /\ chats[i].pc = "race"
    /\ \E kind \in {"session", "rate", "other"} :
          /\ messages' = Write(messages, chats[i].msgEl, i, ErrorText(kind))
          /\ chats' = [chats EXCEPT ![i] = [@ EXCEPT !.pc = "done", !.failure = kind]]
          /\ IF kind = "session"
             THEN aiSession' = Null /\ aiReady' = FALSE /\ UNCHANGED initPc
             ELSE UNCHANGED <<aiSession, aiReady, initPc>>
    /\ isGenerating' = FALSE
    /\ UNCHANGED <<created, modelReady, loadSent, streamingMessage>>
    /\ UNCHANGED notUI

\* generateResponse, lines 801-803 and 837-869: the prompt rejected before
\* the timer, with a message that names the session ('session', 'destroyed'
\* or 'invalid'), with a rate-limit message or with another one; then the
\* finally block.  setTimeout(() => initAI(), 1000) leaves the initialiser
\* at "timer".
\* promptRejected with a catch that drops the session but leaves aiReady up.
promptRejectedStaysReady(i) ==
    /\ chats[i].pc = "race"
    /\ \E kind \in {"session", "rate", "other"} :
          /\ messages' = Write(messages, chats[i].msgEl, i, ErrorText(kind))
          /\ chats' = [chats EXCEPT ![i] = [@ EXCEPT !.pc = "done", !.failure = kind]]
          /\ IF kind = "session"
             THEN aiSession' = Null /\ initPc' = "timer" /\ UNCHANGED aiReady
             ELSE UNCHANGED <<aiSession, aiReady, initPc>>
    /\ isGenerating' = FALSE
    /\ UNCHANGED <<created, modelReady, loadSent, streamingMessage>>
    /\ UNCHANGED notUI

promptRejected(i) ==
    /\ chats[i].pc = "race"
    /\ \E kind \in {"session", "rate", "other"} :
          /\ messages' = Write(messages, chats[i].msgEl, i, ErrorText(kind))
          /\ chats' = [chats EXCEPT ![i] = [@ EXCEPT !.pc = "done", !.failure = kind]]
          /\ IF kind = "session"
             THEN aiSession' = Null /\ aiReady' = FALSE /\ initPc' = "timer"
             ELSE UNCHANGED <<aiSession, aiReady, initPc>>
    /\ isGenerating' = FALSE
    /\ UNCHANGED <<created, modelReady, loadSent, streamingMessage>>
    /\ UNCHANGED notUI

\* promptTimeout with the busy flag left up.
promptTimeoutStaysBusy(i) ==
    /\ chats[i].pc = "race"
    /\ messages' = Write(messages, chats[i].msgEl, i,
                         "Error: AI response failed: Response timeout")
    /\ chats' = [chats EXCEPT ![i] = [@ EXCEPT !.pc = "late", !.timedOut = TRUE]]
    /\ UNCHANGED <<aiSession, created, isGenerating, modelReady, loadSent,
                   aiReady, streamingMessage, initPc>>
    /\ UNCHANGED notUI

\* generateResponse, lines 793-803 and 837-869: the 30 s timer fires first.
\* Nothing cancels aiSession.prompt, which stays in flight.
promptTimeout(i) ==
    /\ chats[i].pc = "race"
    /\ messages' = Write(messages, chats[i].msgEl, i,
                         "Error: AI response failed: Response timeout")
    /\ isGenerating' = FALSE
    /\ chats' = [chats EXCEPT ![i] = [@ EXCEPT !.pc = "late", !.timedOut = TRUE]]
    /\ UNCHANGED <<aiSession, created, modelReady, loadSent, aiReady,
                   streamingMessage, initPc>>
    /\ UNCHANGED notUI

\* The prompt of a call that timed out settles: Promise.race has settled
\* already, so its value or error is dropped.
lateSettled(i) ==
    /\ chats[i].pc = "late"
    /\ chats' = [chats EXCEPT ![i] = [@ EXCEPT !.pc = "done"]]
    /\ UNCHANGED <<aiSession, created, isGenerating, modelReady, loadSent,
                   aiReady, streamingMessage, messages, initPc>>
    /\ UNCHANGED notUI

\* generateResponse, lines 829-835: executeAction has answered (it never
\* throws, lines 748-760); handleActionResult adds system messages only.
executeActionDone(i) ==
    /\ chats[i].pc = "exec"
    /\ isGenerating' = FALSE
    /\ chats' = [chats EXCEPT ![i] = [@ EXCEPT !.pc = "done"]]
    /\ UNCHANGED <<aiSession, created, modelReady, loadSent, aiReady,
                   streamingMessage, messages, initPc>>
    /\ UNCHANGED notUI

\* ------------------------ part_003 217-548 (built-in-AI popup, first variant)
\* updateStatus, lines 317-320, and statusDetail.textContent = ...
updateStatus(a, status) == [a EXCEPT !.badge = status]
statusDetail(a, text) == [a EXCEPT !.detail = text]

\* enableInputs, lines 323-328, and disableInputs, lines 544-547.
enableInputs(a)  == [a EXCEPT !.sendBtn = TRUE, !.quickActions = TRUE]
disableInputs(a) == [a EXCEPT !.sendBtn = FALSE, !.quickActions = FALSE]

\* initAI, lines 256-265, at DOMContentLoaded.
initAI1 ==
    /\ build = "popup-ai1" /\ initPc = "unstarted"
    /\ \E api \in BOOLEAN :
          /\ initPc' = IF api THEN "availability" ELSE "idle"
          /\ affordances' = IF api THEN updateStatus(affordances, "loading")
                            ELSE statusDetail(updateStatus(affordances, "error"),
                                              "Enable at: chrome://flags")
    /\ UNCHANGED <<aiSession, created, isGenerating, aiReady, messages, chats>>
    /\ UNCHANGED notGate

\* initAI, lines 267-296 and 309-313: api.availability() settles.
availabilityDone1 ==
    /\ build = "popup-ai1" /\ initPc = "availability"
    /\ \E a \in {"throws", "unavailable", "downloadable", "available"} :
          /\ initPc' = IF a \in {"downloadable", "available"} THEN "create" ELSE "idle"
          /\ affordances' =
                CASE a = "throws" ->
                         statusDetail(updateStatus(affordances, "error"), "error.message")
                  [] a = "unavailable" ->
                         statusDetail(updateStatus(affordances, "error"), "not supported")
                  [] a = "downloadable" ->
                         statusDetail(updateStatus(affordances, "loading"), "update the model")
                  [] OTHER -> updateStatus(affordances, "loading")
    /\ UNCHANGED <<aiSession, created, isGenerating, aiReady, messages, chats>>
    /\ UNCHANGED notGate

\* initAI, lines 298-313: api.create() settles.
createDone1 ==
    /\ build = "popup-ai1" /\ initPc = "create"
    /\ initPc' = "idle"
    /\ \/ /\ created < MaxSessions
          /\ created' = created + 1
          /\ aiSession' = created + 1
          /\ aiReady' = TRUE
          /\ affordances' =
                enableInputs(statusDetail(updateStatus(affordances, "ready"), ""))
       \/ /\ affordances' =
                statusDetail(updateStatus(affordances, "error"), "error.message")
          /\ UNCHANGED <<aiSession, created, aiReady>>
    /\ UNCHANGED <<isGenerating, messages, chats>>
    /\ UNCHANGED notGate

\* handleInput, lines 331-339: the user edits the input; text says that it
\* holds something to send afterwards.
handleInput1 ==
    /\ build = "popup-ai1"
    /\ \E text \in BOOLEAN :
          affordances' = [affordances EXCEPT
                             !.input = text,
                             !.sendBtn = ~(~aiReady \/ ~text \/ isGenerating)]
    /\ UNCHANGED <<aiSession, created, isGenerating, aiReady, messages, chats, initPc>>
    /\ UNCHANGED notGate

\* handleSend (quick FALSE; it needs text and clears the input) or
\* handleQuickAction, lines 350-376, then generateResponse, lines 406-415,
\* up to await getEmailContext().
aiHandleSend1 ==
    /\ build = "popup-ai1"
    /\ aiReady /\ ~isGenerating /\ Len(chats) < MaxRequests
    /\ isGenerating' = TRUE
    /\ \E quick \in BOOLEAN :
          /\ quick \/ affordances.input
          /\ affordances' =
                disableInputs(updateStatus(
                    [affordances EXCEPT !.input = quick /\ @], "loading"))
    /\ messages' = Append(messages, NewMessage(Len(chats) + 1))
    /\ chats' = Append(chats, [NewChat(Len(messages) + 1) EXCEPT !.pc = "ctx"])
    /\ UNCHANGED <<aiSession, created, aiReady, initPc>>
    /\ UNCHANGED notGate

\* The finally block of lines 472-477, which runs on every way out of
\* generateResponse, the return of line 470 included; a is what the
\* affordances are by then.
Finally1(i, a) ==
    /\ isGenerating' = FALSE
    /\ affordances' = enableInputs(updateStatus(a, "ready"))
    /\ chats' = [chats EXCEPT ![i] = [@ EXCEPT !.pc = "done"]]

\* generateResponse, lines 415-430: the context arrived (getEmailContext
\* never throws, lines 379-387), the prompt is built and
\* aiSession.prompt(prompt) is awaited.
contextDone1(i) ==
    /\ build = "popup-ai1" /\ chats[i].pc = "ctx"
    /\ chats' = [chats EXCEPT ![i] = [@ EXCEPT !.pc = "prompt", !.session = aiSession]]
    /\ UNCHANGED <<aiSession, created, isGenerating, aiReady, messages, initPc,
                   affordances>>
    /\ UNCHANGED notGate

\* generateResponse, lines 430-458: the prompt resolved; the text is
\* shown, and executeAction is awaited when an action was parsed.
promptResolved1(i) ==
    /\ build = "popup-ai1" /\ chats[i].pc = "prompt"
    /\ messages' = Write(messages, chats[i].msgEl, i, "response")
    /\ \E hasAction \in BOOLEAN :
          IF hasAction
          THEN /\ chats' = [chats EXCEPT ![i] = [@ EXCEPT !.pc = "exec"]]
               /\ UNCHANGED <<isGenerating, affordances>>
          ELSE Finally1(i, affordances)
    /\ UNCHANGED <<aiSession, created, aiReady, initPc>>
    /\ UNCHANGED notGate

\* generateResponse, lines 460-477: the prompt rejected.  For a message
\* that names the session (or 'destroyed') the handle is dropped and the
\* badge set to 'error' before the return of line 470; then finally runs.
promptRejected1(i) ==
    /\ build = "popup-ai1" /\ chats[i].pc = "prompt"
    /\ messages' = Write(messages, chats[i].msgEl, i, "error")
    /\ \/ /\ aiSession' = Null
          /\ aiReady' = FALSE
          /\ Finally1(i, statusDetail(updateStatus(affordances, "error"),
                                      "Refresh to restart"))
       \/ /\ Finally1(i, affordances)
          /\ UNCHANGED <<aiSession, aiReady>>
    /\ UNCHANGED <<created, initPc>>
    /\ UNCHANGED notGate

\* handleActionResult, lines 520-541: a system message for an error, a
\* summary, an email or a message (a result carries one of them here);
\* none for a null result.
handleActionResult(ms, i, result) ==
    IF result = "null" THEN ms
    ELSE Append(ms, [owner |-> i, writers |-> {i}, text |-> result])

\* generateResponse, lines 452-458: executeAction has answered (it never
\* throws, lines 390-403).
executeActionDone1(i) ==
    /\ build = "popup-ai1" /\ chats[i].pc = "exec"
    /\ \E result \in {"null", "error", "summary", "email", "message"} :
          messages' = handleActionResult(messages, i, result)
    /\ Finally1(i, affordances)
    /\ UNCHANGED <<aiSession, created, aiReady, initPc>>
    /\ UNCHANGED notGate

NextUI1 ==
    \/ initAI1
    \/ availabilityDone1
    \/ createDone1
    \/ handleInput1
    \/ aiHandleSend1
    \/ \E i \in DOMAIN chats :
        \/ contextDone1(i)
        \/ promptResolved1(i)
        \/ promptRejected1(i)
        \/ executeActionDone1(i)

NextUI ==
    \/ loadModel
    \/ loadModelAnswered
    \/ handleSend
    \/ initAI
    \/ availabilityDone
    \/ createDone
    \/ aiHandleSend
    \/ \E i \in DOMAIN chats :
        \/ chatAnswered(i)
        \/ portFrame(i)
        \/ portDisconnect(i)
        \/ contextDone(i)
        \/ promptResolved(i)
        \/ promptRejected(i)
        \/ promptTimeout(i)
        \/ lateSettled(i)
        \/ executeActionDone(i)

\* ============================================================ SpecPage
\* The content script, content.js.  The page is what the selectors find:
\*   rows         number of tr.zA rows (SELECTORS.emailRows)
\*   searchBox    input[name="q"] exists;  form: it is inside a form
\*   scroller     the .AO container exists
\*   replyBtn     [data-tooltip="Reply"] exists
\*   emailBody    an open email's body exists (SELECTORS.emailBody)
\*   composeBody  a compose body exists (SELECTORS.composeBody)
DomStates ==
    [rows : 0..MaxRows, searchBox : BOOLEAN, form : BOOLEAN, scroller : BOOLEAN,
     replyBtn : BOOLEAN, emailBody : BOOLEAN, composeBody : BOOLEAN]

BlankPage ==
    [rows |-> 0, searchBox |-> FALSE, form |-> FALSE, scroller |-> FALSE,
     replyBtn |-> FALSE, emailBody |-> FALSE, composeBody |-> FALSE]

\* The action names of the switch, lines 182-220.
KnownActions ==
    {"get_email_context", "get_emails", "summarize_inbox", "summarize_email",
     "filter_unread", "search", "open_email", "scroll", "draft_reply",
     "analyze_sentiment"}

\* A message {action, params}: absent says params carries no value for the
\* handler; index and direction are params.index and params.direction.
PageMessage(a, absent, index, direction) ==
    [action |-> a, absent |-> absent, index |-> index, direction |-> direction]

\* The messages the listener is run with; "bogus" is a name the switch
\* does not know.
PageMessages ==
    {PageMessage(a, TRUE, 0, "") : a \in (KnownActions \cup {"bogus"})}
    \cup {PageMessage("open_email", FALSE, i, "") : i \in -1..MaxRows}
    \cup {PageMessage("scroll", FALSE, 0, dir) : dir \in {"up", "down"}}

\* What a handler returns, with the DOM mutations it made on the way and
\* the timers it set.
Outcome(kind, text, effects, timers) ==
    [kind |-> kind, text |-> text, effects |-> effects, timers |-> timers]
Effect(op, arg) == [op |-> op, arg |-> arg]

\* searchEmails, lines 76-86.
searchEmails ==
    IF dom.searchBox
    THEN Outcome("success", "Searching",
                 <<Effect("value", 0), Effect("input", 0)>>
                     \o (IF dom.form THEN <<Effect("submit", 0)>> ELSE <<>>), 0)
    ELSE Outcome("error", "Search box not found", <<>>, 0)

\* summarizeEmail, lines 119-131, and analyzeSentiment, lines 170-174.
summarizeEmail ==
    IF dom.emailBody THEN Outcome("data", "email", <<>>, 0)
    ELSE Outcome("error", "No email open", <<>>, 0)

\* openEmail with an index outside the rows sent to the nearest row.
openEmailNearest(index) ==
    IF dom.rows > 0
    THEN Outcome("success", "Opened email",
                 <<Effect("click", Max({0, Min({index, dom.rows - 1})}))>>, 0)
    ELSE Outcome("error", "Email not found", <<>>, 0)

\* openEmail, lines 134-141: rows[index] is undefined unless
\* 0 <= index < rows.length.
openEmail(index) ==
    IF index \in 0..(dom.rows - 1)
    THEN Outcome("success", "Opened email", <<Effect("click", index)>>, 0)
    ELSE Outcome("error", "Email not found", <<>>, 0)

\* scrollInbox, lines 144-152.
scrollInbox(direction) ==
    IF dom.scroller
    THEN Outcome("success", "Scrolled",
                 <<Effect("scrollBy", IF direction = "up" THEN -300 ELSE 300)>>, 0)
    ELSE Outcome("error", "Could not scroll", <<>>, 0)

\* draftReply answering only once the compose body is there to be filled.
draftReplyChecked ==
    IF dom.replyBtn
    THEN IF dom.composeBody
         THEN Outcome("success", "Reply drafted", <<Effect("click-reply", 0)>>, 1)
         ELSE Outcome("error", "Compose body not found", <<Effect("click-reply", 0)>>, 0)
    ELSE Outcome("error", "Reply button not found", <<>>, 0)

\* draftReply, lines 155-168: the compose body is filled by a timer.
draftReply ==
    IF dom.replyBtn
    THEN Outcome("success", "Reply drafted", <<Effect("click-reply", 0)>>, 1)
    ELSE Outcome("error", "Reply button not found", <<>>, 0)

\* The switch of lines 181-221; 'params?.index || 0' and
\* 'params?.direction || "down"' supply the defaults.
Dispatch(m) ==
    CASE m.action \in {"get_email_context", "get_emails", "summarize_inbox"} ->
             Outcome("data", m.action, <<>>, 0)
      [] m.action \in {"summarize_email", "analyze_sentiment"} -> summarizeEmail
      [] m.action \in {"filter_unread", "search"} -> searchEmails
      [] m.action = "open_email" -> openEmail(IF m.absent THEN 0 ELSE m.index)
      [] m.action = "scroll" ->
             scrollInbox(IF m.absent THEN "down" ELSE m.direction)
      [] m.action = "draft_reply" -> draftReply
      [] OTHER -> Outcome("error", "Unknown action", <<>>, 0)

\* The listener's record of a message: how many times sendResponse was
\* called, with what, and whether an exception left the listener.
Handled(m, answers, o, escaped) ==
    [action |-> m.action, absent |-> m.absent, index |-> m.index,
     direction |-> m.direction, answers |-> answers, reply |-> o.kind,
     text |-> o.text, effects |-> o.effects, escaped |-> escaped]

NoMessage ==
    Handled(PageMessage("", TRUE, 0, ""), 0, Outcome("", "", <<>>, 0), FALSE)

\* getEmailList, lines 21-47: one item per row, the first 50 rows at most;
\* an item is known by its index.
getEmailList == [i \in 1..Min({dom.rows, 50}) |-> i - 1]

\* getOpenEmail, lines 50-63: null when no body element is found.
getOpenEmail == IF dom.emailBody THEN "email" ELSE "null"

\* A read result; reads counts the reads made since the page last changed
\* (two stands for two or more).
ReadResult(items, openItem, reads) ==
    [items |-> items, openItem |-> openItem, reads |-> reads]
NoRead == ReadResult(<<>>, "none", 0)

\* ---------------------------------------------------------- SpecPrompt
\* String.prototype.slice(0, n) of a string of len characters: its length.
Slice(len, n) == Min({len, n})

\* Body lengths of the open email, around each limit.
BodyLengths == {0, 1, BgBodySlice, BgBodySlice + 1, OffBodySlice, OffBodySlice + 1,
                BodyLimit - 1, BodyLimit, BodyLimit + 1, 2 * BodyLimit}

\* A page: rows tr.zA rows, and an open email (or none) whose trimmed body
\* text has body characters.
Page(rows, open, body) ==
    [stage |-> "page", rows |-> rows, open |-> open, body |-> body,
     emails |-> 0, openEmail |-> FALSE, bodyChars |-> 0,
     variant |-> "none", promptItems |-> 0, promptChars |-> 0]

Pages ==
    {Page(rows, FALSE, 0) : rows \in 0..MaxInbox}
    \cup {Page(rows, TRUE, body) : rows \in 0..MaxInbox, body \in BodyLengths}

NoInference == Page(0, FALSE, 0)

\* getEmailContext, content.js lines 66-72: getEmailList (21-47) returns
\* one item per row, the first 50 rows at most; getOpenEmail (50-63)
\* returns null or the email with the first 2000 characters of its body.
getEmailContext ==
    /\ inference.stage = "page"
    /\ inference' = [inference EXCEPT
          !.stage = "context",
          !.emails = Min({inference.rows, ListLimit}),
          !.openEmail = inference.open,
          !.bodyChars = IF inference.open THEN Slice(inference.body, BodyLimit) ELSE 0]
    /\ UNCHANGED notPrompt

\* generateResponse, background.js lines 86-98: every item of
\* emailContext.emails is a line of the prompt; the open email's body is
\* cut to 300 characters.
bgBuildPrompt ==
    /\ build = "ai" /\ inference.stage = "context"
    /\ inference' = [inference EXCEPT
          !.stage = "prompt", !.variant = "bg",
          !.promptItems = inference.emails,
          !.promptChars = IF inference.openEmail
                          THEN Slice(inference.bodyChars, BgBodySlice) ELSE 0]
    /\ UNCHANGED notPrompt

\* generateResponse, offscreen.js lines 88-102: likewise, the body cut to
\* 500 characters.
offBuildPrompt ==
    /\ build = "webllm" /\ inference.stage = "context"
    /\ inference' = [inference EXCEPT
          !.stage = "prompt", !.variant = "off",
          !.promptItems = inference.emails,
          !.promptChars = IF inference.openEmail
                          THEN Slice(inference.bodyChars, OffBodySlice) ELSE 0]
    /\ UNCHANGED notPrompt

NextPrompt ==
    \/ getEmailContext
    \/ bgBuildPrompt
    \/ offBuildPrompt

PageIdle ==
    /\ dom = BlankPage
    /\ handled = NoMessage
    /\ draftTimers = 0
    /\ composeHTML = ""
    /\ lastRead = NoRead

InitPage == PageIdle /\ inference = NoInference

\* The listener of lines 177-231 without its try/catch: a DOM call that
\* throws leaves the listener, and nothing is answered.
onMessageNoCatch ==
    /\ handled = NoMessage
    /\ \E m \in PageMessages, throws \in BOOLEAN :
          LET o == Dispatch(m) IN
          /\ draftTimers + o.timers <= MaxTimers
          /\ IF throws
             THEN /\ handled' = Handled(m, 0, Outcome("", "", <<>>, 0), TRUE)
                  /\ UNCHANGED draftTimers
             ELSE /\ handled' = Handled(m, 1, o, FALSE)
                  /\ draftTimers' = draftTimers + o.timers
    /\ UNCHANGED <<dom, composeHTML>>
    /\ UNCHANGED notPage

\* The listener of lines 177-231, run for one message.  The handler's
\* result goes to sendResponse; when a DOM call throws before that, the
\* catch of lines 222-225 answers {error: error.message}.
onMessage ==
    /\ handled = NoMessage
    /\ \E m \in PageMessages, throws \in BOOLEAN :
          LET o == Dispatch(m) IN
          /\ draftTimers + o.timers <= MaxTimers
          /\ IF throws
             THEN /\ handled' = Handled(m, 1, Outcome("error", "error.message", <<>>, 0), FALSE)
                  /\ UNCHANGED draftTimers
             ELSE /\ handled' = Handled(m, 1, o, FALSE)
                  /\ draftTimers' = draftTimers + o.timers
    /\ UNCHANGED <<dom, composeHTML>>
    /\ UNCHANGED notPage

\* The sender has the response; the listener is ready for the next message.
ResponseDelivered ==
    /\ handled # NoMessage
    /\ handled' = NoMessage
    /\ UNCHANGED <<dom, draftTimers, composeHTML>>
    /\ UNCHANGED notPage

\* draftReply's timer, lines 159-164, 500 ms later.
DraftTimerFires ==
    /\ draftTimers > 0
    /\ draftTimers' = draftTimers - 1
    /\ composeHTML' = IF dom.composeBody THEN "text" ELSE composeHTML
    /\ UNCHANGED <<dom, handled>>
    /\ UNCHANGED notPage

\* Gmail redraws the page (after a click, a search, or on its own).
PageChanges ==
    /\ \E d \in DomStates :
          /\ d # dom
          /\ d.form => d.searchBox
          /\ dom' = d
          /\ composeHTML' = IF d.composeBody THEN composeHTML ELSE ""
    /\ lastRead' = [lastRead EXCEPT !.reads = 0]
    /\ UNCHANGED <<handled, draftTimers>>
    /\ UNCHANGED notRead

\* Gmail opens or closes the reply view of the open email: the Reply button
\* and the compose body come and go (the click of line 157 asks for the
\* compose body; whether and when Gmail shows it is Gmail's business).
ReplyViewChanges ==
    /\ \E b \in BOOLEAN, c \in BOOLEAN :
          /\ <<b, c>> # <<dom.replyBtn, dom.composeBody>>
          /\ dom' = [dom EXCEPT !.replyBtn = b, !.composeBody = c]
          /\ composeHTML' = IF c THEN composeHTML ELSE ""
    /\ lastRead' = [lastRead EXCEPT !.reads = 0]
    /\ UNCHANGED <<handled, draftTimers>>
    /\ UNCHANGED notRead

\* A read that hands out each row once only.
readMessageOnce ==
    /\ handled = NoMessage
    /\ \E a \in {"get_email_context", "get_emails"} :
          LET m == PageMessage(a, TRUE, 0, "")
              items == IF lastRead.reads > 0 THEN <<>> ELSE getEmailList
          IN  /\ handled' = Handled(m, 1, Dispatch(m), FALSE)
              /\ lastRead' = ReadResult(items, getOpenEmail, Min({lastRead.reads + 1, 2}))
    /\ UNCHANGED <<dom, draftTimers, composeHTML>>
    /\ UNCHANGED notRead

\* The listener run for get_email_context or get_emails (lines 183-189):
\* getEmailContext, lines 66-72, reads the rows and the open email; nothing
\* is written to the page.
readMessage ==
    /\ handled = NoMessage
    /\ \E a \in {"get_email_context", "get_emails"} :
          LET m == PageMessage(a, TRUE, 0, "")
          IN  /\ handled' = Handled(m, 1, Dispatch(m), FALSE)
              /\ lastRead' = ReadResult(getEmailList, getOpenEmail,
                                       Min({lastRead.reads + 1, 2}))
    /\ UNCHANGED <<dom, draftTimers, composeHTML>>
    /\ UNCHANGED notRead

\* ----------------------------------------------------------- SpecPage2
\* The second content script, src/src/popup.ts lines 255-620.  The page is
\* the same record; replyBtn stands for what draftReply looks for (the
\* reply button or else the compose button) and scroller for '.AO, .nH.bkK'.
KnownActions2 == KnownActions \cup {"get_open_email"}

PageMessages2 ==
    PageMessages \cup {PageMessage("get_open_email", TRUE, 0, "")}

\* getEmailContext, lines 339-363.
getEmailContext2 ==
    IF dom.emailBody THEN Outcome("data", "open_email", <<>>, 0)
    ELSE IF dom.rows > 0 THEN Outcome("data", "inbox", <<>>, 0)
    ELSE Outcome("data", "none", <<>>, 0)

\* openEmail, lines 366-373.
openEmail2(index) ==
    IF index >= 0 /\ index < dom.rows
    THEN Outcome("success", "Opened email", <<Effect("click", index)>>, 0)
    ELSE Outcome("error", "Email index not found", <<>>, 0)

\* searchEmails, lines 376-398, and filterUnread, lines 401-403.
searchEmails2 ==
    IF dom.searchBox
    THEN Outcome("success", "Searching for",
                 <<Effect("value", 0), Effect("input", 0),
                   Effect(IF dom.form THEN "submit" ELSE "keydown", 0)>>, 0)
    ELSE Outcome("error", "Search box not found", <<>>, 0)

\* scrollInbox, lines 406-414.
scrollInbox2(direction) ==
    IF dom.scroller
    THEN Outcome("success", "Scrolled",
                 <<Effect("scrollBy", IF direction = "down" THEN 500 ELSE -500)>>, 0)
    ELSE Outcome("error", "Scroll container not found", <<>>, 0)

\* summarizeInbox, lines 417-446.
summarizeInbox2 ==
    IF dom.rows = 0 THEN Outcome("error", "No emails found in inbox", <<>>, 0)
    ELSE Outcome("success", "summary", <<>>, 0)

\* summarizeEmail, lines 449-466.
summarizeEmail2 ==
    IF dom.emailBody THEN Outcome("success", "email", <<>>, 0)
    ELSE Outcome("error", "No email is currently open", <<>>, 0)

\* analyzeSentiment, lines 469-488.
analyzeSentiment2 ==
    IF dom.emailBody THEN Outcome("success", "email", <<>>, 0)
    ELSE IF dom.rows = 0 THEN Outcome("error", "No email content to analyze", <<>>, 0)
    ELSE Outcome("success", "inbox", <<>>, 0)

\* draftReply, lines 491-527: the button is clicked and a timer fills the
\* compose body.
draftReply2 ==
    IF dom.replyBtn
    THEN Outcome("success", "Opening with draft text", <<Effect("click-reply", 0)>>, 1)
    ELSE Outcome("error", "Could not open reply/compose", <<>>, 0)

\* The switch of lines 536-583.  'case "get_open_email": const openEmail = ...'
\* declares openEmail for the whole switch block, so the openEmail of
\* 'case "open_email": sendResponse(openEmail(params.index || 0))' is that
\* constant, not the function of line 366, and it has no value there:
\* evaluating the call throws (a ReferenceError; a TypeError when the build
\* turns const into var), whatever the index.
Dispatch2(m) ==
    CASE m.action = "get_emails" -> Outcome("success", "emails", <<>>, 0)
      [] m.action = "get_open_email" ->
             IF dom.emailBody THEN Outcome("success", "email", <<>>, 0)
             ELSE Outcome("error", "No email open", <<>>, 0)
      [] m.action = "get_email_context" -> getEmailContext2
      [] m.action = "open_email" -> Outcome("threw", "error.message", <<>>, 0)
      [] m.action = "search" -> searchEmails2
      [] m.action = "filter_unread" -> searchEmails2
      [] m.action = "scroll" ->
             scrollInbox2(IF m.absent THEN "down" ELSE m.direction)
      [] m.action = "summarize_inbox" -> summarizeInbox2
      [] m.action = "summarize_email" -> summarizeEmail2
      [] m.action = "analyze_sentiment" -> analyzeSentiment2
      [] m.action = "draft_reply" -> draftReply2
      [] OTHER -> Outcome("error", "Unknown action", <<>>, 0)

\* The listener of lines 530-591, run for one message: the handler's result
\* goes to sendResponse, and the catch of lines 584-587 answers
\* {success: false, error: error.message} when something threw before that.
onMessage2 ==
    /\ handled = NoMessage
    /\ \E m \in PageMessages2, throws \in BOOLEAN :
          LET o == Dispatch2(m) IN
          /\ draftTimers + o.timers <= MaxTimers
          /\ IF throws \/ o.kind = "threw"
             THEN /\ handled' = Handled(m, 1, Outcome("error", "error.message", <<>>, 0), FALSE)
                  /\ UNCHANGED draftTimers
             ELSE /\ handled' = Handled(m, 1, o, FALSE)
                  /\ draftTimers' = draftTimers + o.timers
    /\ UNCHANGED <<dom, composeHTML>>
    /\ UNCHANGED notPage

NextPage2 ==
    \/ onMessage2
    \/ ResponseDelivered
    \/ DraftTimerFires
    \/ PageChanges

NextRead ==
    \/ readMessage
    \/ ResponseDelivered
    \/ PageChanges

\* The content script while only the reply view of the page changes.
NextDraft ==
    \/ onMessage
    \/ ResponseDelivered
    \/ DraftTimerFires
    \/ ReplyViewChanges

NextPage ==
    \/ onMessage
    \/ ResponseDelivered
    \/ DraftTimerFires
    \/ PageChanges

\* ------------------------------------------------------- specifications
ParseIdle == rawText = <<>> /\ variant = "none" /\ parsed = NotParsed

Idle == InitBg /\ ParseIdle /\ InitOff /\ InitPipe /\ InitUI /\ InitPage /\ InitChannel /\ InitProgress

Init == Idle /\ build = "ai"
Next == NextBg
Spec == Init /\ [][Next]_vars

InitWebLLM == Idle /\ build = "webllm"
SpecOff == InitWebLLM /\ [][NextOff]_vars

\* Either background script, chosen when the extension is built, with a
\* Gmail tab open (so that actions are dispatched to it).
InitBuilds == Idle /\ gmail # "none" /\ build \in {"ai", "webllm"}
NextBuilds ==
    \/ build = "ai" /\ NextBg
    \/ build = "webllm" /\ NextOff
SpecBuilds == InitBuilds /\ [][NextBuilds]_vars

\* Status queries beside the engine's lifecycle, in either build: the popup's
\* load, context-menu analyses and check_status messages.
NextStatus ==
    \/ /\ build = "ai"
       /\ \/ PopupLoadModel
          \/ MenuClick
          \/ Message("check_status")
          \/ \E h \in H :
              \/ AvailDone(h)
              \/ CreateDone(h)
              \/ WaitPoll(h)
              \/ PromptDone(h)
              \/ StatusDone(h)
              \/ PopupLoadReply(h)
              \/ Finish(h)
    \/ /\ build = "webllm"
       /\ \/ OffPopupLoadModel
          \/ OffMenuClick
          \/ OffMessage("check_status")
          \/ \E h \in OH :
              \/ QueryAnswered(h)
              \/ setupOffscreenDocument(h)
              \/ CreateDocumentDone(h)
              \/ handleMessage(h)
              \/ initializeEngine(h)
              \/ EngineWaitPoll(h)
              \/ CompletionDone(h)
              \/ OffscreenAnswered(h)
              \/ OffPopupLoadReply(h)
              \/ OffFinish(h)
InitStatus == Idle /\ gmail = "none" /\ build \in {"ai", "webllm"}
SpecStatus == InitStatus /\ [][NextStatus]_vars

InitTexts ==
    InitParse /\ InitBg /\ InitOff /\ InitPipe /\ InitUI /\ InitPage /\ InitChannel /\ InitProgress
    /\ gmail = "ok" /\ build = "ai"
SpecParse == InitTexts /\ [][NextParse]_vars

\* The Transformers.js background, either variant, with no Gmail tab.
InitPipeline == Idle /\ gmail = "none" /\ build \in {"ts", "js"}
SpecPipe == InitPipeline /\ [][NextPipe]_vars

\* A chat popup on its own: the WebLLM popup with either setting of its
\* streaming switch, or the built-in-AI popup.
InitChatUI ==
    /\ InitBg /\ ParseIdle /\ InitOff /\ InitPipe /\ UIIdle /\ InitPage /\ InitChannel /\ InitProgress
    /\ gmail = "none"
    /\ \/ build = "popup-webllm" /\ useStreaming \in BOOLEAN
       \/ build = "popup-ai" /\ useStreaming = FALSE
SpecUI == InitChatUI /\ [][NextUI]_vars

\* The first variant of the built-in-AI popup on its own.
InitChatUI1 == Idle /\ gmail = "none" /\ build = "popup-ai1"
SpecUI1 == InitChatUI1 /\ [][NextUI1]_vars

\* The content script in a Gmail tab.
InitContent == Idle /\ gmail = "ok" /\ build = "content"
SpecPage == InitContent /\ [][NextPage]_vars

\* The second content script in a Gmail tab.
InitContent2 == Idle /\ gmail = "ok" /\ build = "content2"
SpecPage2 == InitContent2 /\ [][NextPage2]_vars

\* One context on its way from the page to the prompt, in either build.
InitPrompt ==
    /\ InitBg /\ ParseIdle /\ InitOff /\ InitPipe /\ InitUI /\ PageIdle /\ InitChannel /\ InitProgress
    /\ gmail = "ok" /\ build \in {"ai", "webllm"}
    /\ inference \in Pages
SpecPrompt == InitPrompt /\ [][NextPrompt]_vars

\* The content script's read path alone.
SpecRead == InitContent /\ [][NextRead]_vars

\* ================================================================ claims
Range(f) == {f[x] : x \in DOMAIN f}

\* The invocations with a session.prompt call in flight.
PromptsInFlight ==
    BagCardinality([h \in {x \in H : x.pc = "prompt"} |-> handlers[h]])

\* C1: single-flight initialization -- in every round create() is called at
\* most once, and every caller of the round whose getAISession has returned
\* holds the same non-null handle, whether creation succeeded or failed.
C1_SingleFlight ==
    /\ roundCreates <= 1
    /\ \A h \in H : h.joined /\ h.got = "returned" =>
          /\ h.session # Null
          /\ \A g \in H : g.joined /\ g.got = "returned" => g.session = h.session

\* C2: Scenario B -- a chat whose generated text is 'Here is a summary.', a
\* newline and {"action":"summarize_inbox","params":{}} is answered with the
\* text 'Here is a summary.' and the action {summarize_inbox, {}}, and
\* summarize_inbox with params {} has been sent to the content script by then.
C2_ScenarioB ==
    \A h \in H :
        h.kind = "chat" /\ h.pc = "replied" /\ h.response = ScenarioB /\ gmail = "ok" =>
            /\ h.reply.type = "success"
            /\ h.reply.response = <<"w">>
            /\ h.reply.action = [action |-> <<"S">>, params |-> <<"{", "}">>]
            /\ <<  <<"S">>, <<"{", "}">>  >> \in Range(h.dispatched)

\* C6: at most one session.prompt call is in flight at any time, counting
\* the popup's chat requests and the context-menu clicks.
C6_OnePromptInFlight == PromptsInFlight <= 1

\* The number of session.prompt calls in flight on session s in the bag b.
PromptsOn(b, s) ==
    BagCardinality([h \in {x \in BagToSet(b) : x.pc = "prompt" /\ x.session = s}
                        |-> b[h]])

\* C7: dead handles are never reused -- a step in which a prompt() rejects
\* leaves aiSession null, and every step that issues a prompt issues it on
\* the current, non-null session, on which no prompt has failed and which
\* was created after every session on which one has.
C7_NoPromptOnDeadSession ==
    [][ /\ failed' # failed => aiSession' = Null
        /\ \A s \in 0..created' :
              PromptsOn(handlers', s) > PromptsOn(handlers, s) =>
                  /\ s # Null /\ s = aiSession' /\ s \notin failed'
                  /\ \A f \in failed' : f < s ]_vars

\* C7 witness: a prompt has failed on an earlier session and a prompt is in
\* flight on a session created after it.
C7_Witness ==
    /\ failed # {}
    /\ \E h \in H : h.pc = "prompt" /\ h.session \notin failed
                    /\ \A f \in failed : f < h.session

\* C8: Scenario D -- a chat handled while no Gmail tab is open (or the
\* content script cannot be reached) and answered with success was prompted
\* with a note about the missing host surface.
C8_ScenarioD ==
    \A h \in H :
        h.kind = "chat" /\ h.pc = "replied" /\ gmail # "ok" /\ h.reply.type = "success" =>
            "note" \in Range(h.prompt)

\* C9: a parsed action with an unknown name is treated as no action -- it is
\* not sent to the content script and the chat response carries neither an
\* action nor an actionResult.
C9_UnknownActionIgnored ==
    \A h \in H :
        h.kind = "chat" /\ h.result.action.action = <<"U">> /\ gmail = "ok" =>
            /\ \A m \in Range(h.dispatched) : m[1] # <<"U">>
            /\ h.pc = "replied" =>
                  h.reply.action = NoAction /\ h.reply.actionResult = "undefined"

\* C10: execute_action and get_email_context are recognised by the
\* background's message handler -- neither is answered 'Unknown action'.
C10_PopupActionsRecognised ==
    \A h \in H :
        h.kind \in {"execute_action", "get_email_context"} /\ h.pc = "replied" =>
            h.reply.error # "Unknown action"

\* A position pair <<i, j>> delimits a well-formed JSON object of the text.
ObjectAt(s, i, j) ==
    i < j /\ s[i] = "{" /\ s[j] = "}" /\ JSONParses(SubSeq(s, i, j))

\* ... of the form {"action": X, "params": {...}} with X a string.
ActionParamsObjectAt(s, i, j) ==
    /\ ObjectAt(s, i, j)
    /\ LET a == ParsedAction(SubSeq(s, i, j)) IN
       /\ Len(a.action) = 1 /\ a.action[1] \in StringToks
       /\ a.params # <<>> /\ a.params[1] = "{"

\* ... with an action key.
HasActionObject(s) ==
    \E i, j \in 1..Len(s) :
        ObjectAt(s, i, j) /\ ParsedAction(SubSeq(s, i, j)).action # <<>>

\* C3: the offscreen host extracts the action of every text that contains a
\* well-formed {"action": X, "params": {...}} -- for one such object of the
\* text, the returned action is that object and the returned text is the text
\* without it, trimmed (the confirmation string when nothing is left).
C3_OffExtractsAction ==
    variant = "off" /\
    (\E i, j \in 1..Len(rawText) : ActionParamsObjectAt(rawText, i, j)) =>
        \E i, j \in 1..Len(rawText) :
            /\ ActionParamsObjectAt(rawText, i, j)
            /\ parsed.action = ParsedAction(SubSeq(rawText, i, j))
            /\ LET c == Trim(RemoveMatch(rawText, <<i, j>>)) IN
               parsed.response =
                   IF c = <<>> THEN getActionConfirmationOff(parsed.action) ELSE c

\* C4: a text without a well-formed JSON object that has an action key
\* yields action = null and the raw text as the response, in both variants.
C4_NoObjectNoAction ==
    variant # "none" /\ ~HasActionObject(rawText) =>
        parsed.action = NoAction /\ parsed.response = rawText

\* The chrome.offscreen.createDocument calls that have not settled.
CreatesPending(b) ==
    BagCardinality([h \in {x \in BagToSet(b) : x.pc = "creating"} |-> b[h]])

\* C5: offscreen provisioning is idempotent -- createDocument is invoked
\* only while no offscreen document exists and no creation is pending.
C5_ProvisionOnce ==
    [][CreatesPending(senders') > CreatesPending(senders) =>
          ~docExists /\ CreatesPending(senders) = 0]_vars

\* The entries of a tabs.sendMessage log that carry an action of the model
\* (every message but the two read requests).
ActionEntries(log) ==
    {i \in DOMAIN log : log[i][1] \notin {<<"get_email_context">>, <<"get_emails">>}}

\* The steps of one chat request in their order, given what the invocation
\* h has logged: fetching (the context fetch is in flight), generating,
\* generated (generation has returned), act (the parsed action, NoAction
\* when there is none or generation has not returned).
Sequenced(h, fetching, generating, generated, act) ==
    LET log  == h.dispatched
        acts == ActionEntries(log)
        due  == act # NoAction /\ ~executeActionReturnsNull(act)
    IN  /\ Cardinality(acts) <= 1
        /\ fetching => log = <<>> /\ ~generated
        /\ ~fetching /\ gmail # "none" =>
              Len(log) >= 1 /\ log[1][1] = <<"get_email_context">>
        /\ generating => ~generated /\ acts = {}
        /\ \A i \in acts :
              /\ generated /\ due
              /\ i = 2 /\ i = Len(log)
              /\ log[i] = <<act.action, paramsOrEmpty(act)>>
        /\ h.pc = "exec" => generated /\ due /\ acts = {} /\ h.reply = NoReply
        /\ h.pc = "replied" /\ generated /\ due =>
              /\ h.actionResult # "undefined"
              /\ h.reply.actionResult = h.actionResult
              /\ gmail # "none" => acts # {}
        /\ h.pc # "replied" => h.reply = NoReply

\* C11: within one chat request the steps are strictly sequential in both
\* controllers -- the context fetch completes before generation starts,
\* generation completes before an action is dispatched, at most one action
\* is dispatched, and the response is sent only after the dispatch is over.
C11_ChatStepsSequential ==
    /\ \A h \in H : h.kind = "chat" =>
          Sequenced(h, h.pc = "ctx",
                    h.pc \in {"avail", "create", "wait", "prompt"},
                    h.response # <<>>, h.result.action)
    /\ \A h \in OH : h.kind = "chat" =>
          Sequenced(h, h.pc = "ctx",
                    h.pc \in {"query", "queried", "creating", "awaiting", "sent",
                              "wait", "loading", "completing"},
                    h.answer.type = "success", h.answer.action)

\* C11 witness: a chat has been answered after its action was dispatched,
\* the context request being the first message and the action the second.
C11_Witness ==
    \E h \in H \cup OH :
        /\ h.kind = "chat" /\ h.pc = "replied" /\ h.reply.type = "success"
        /\ Len(h.dispatched) = 2 /\ ActionEntries(h.dispatched) = {2}
        /\ h.reply.actionResult # "undefined"

\* C12: load_model is answered {success: true, loaded: true} only if an
\* engine handle exists at the moment of the reply -- the value getAISession
\* (initializeEngine in the offscreen host) returned to the handler that
\* answers is not null.
C12_LoadedOnlyWithHandle ==
    /\ \A h \in H :
          h.kind = "load_model" /\ h.reply.type = "success" /\ h.reply.loaded =>
              h.session # Null
    /\ \A h \in OH :
          h.kind = "load_model" /\ h.answer.type = "success" /\ h.answer.loaded =>
              h.llm # Null

\* C13: in the sentiment popup modelReady is true only if the classification
\* engine actually loaded -- a warm-up answered { success: false, error }
\* does not make the popup ready.
C13_ReadyOnlyIfLoaded ==
    build = "ts" /\ modelReady => instance["text"] = "resolved"

\* C17: every request whose engine load or inference call rejected is
\* answered, and answered with { success: false, error } -- no handler
\* leaves a request unanswered.
C17_FaultsAnswered ==
    \A h \in RQ :
        h.kind # "menu" /\ h.fault # "" =>
            h.pc = "replied" /\ h.reply.type = "failure"

\* The chat requests in progress in the bag b.
ChatsIn(b) ==
    BagCardinality([h \in {x \in BagToSet(b) : x.kind = "chat"} |-> b[h]])

\* C14: Scenario A -- the popup sends a chat request only when modelReady is
\* already true, and modelReady becomes true only in the step that takes a
\* load_model answer carrying success or loaded; so no chat is sent while
\* the engine is loading, whatever is clicked or typed.
C14_NoChatBeforeLoaded ==
    [][ /\ ChatsIn(handlers') + ChatsIn(senders') > ChatsIn(handlers) + ChatsIn(senders)
            => modelReady /\ ~isGenerating
        /\ modelReady' /\ ~modelReady =>
              \E h \in H \cup OH :
                  /\ h.kind = "load_model" /\ h.pc = "replied"
                  /\ h.reply.type = "success" \/ h.reply.loaded ]_vars

\* C14 witness: the load was answered with success and a chat request is
\* in progress.
C14_Witness ==
    /\ modelReady /\ loadSent /\ isGenerating
    /\ ChatsIn(handlers) + ChatsIn(senders) = 1



\* C15 (SpecUI): every assistant message element is written only by the
\* generateResponse call that created it, so no two generations write into
\* the same element -- also when a call that timed out settles late while a
\* newer request runs.
C15_OutputIsolation ==
    \A m \in DOMAIN messages : messages[m].writers \subseteq {messages[m].owner}

\* C15's case: the first request timed out and its engine call settled
\* late, a second request was started and has written its own element.
C15_Witness ==
    /\ Len(chats) = 2
    /\ chats[1].timedOut /\ chats[1].pc = "done"
    /\ messages[chats[1].msgEl].writers = {1}
    /\ messages[chats[2].msgEl].writers = {2}

\* C16 (SpecUI): when the 30 s timer wins the race, the request's element
\* shows 'Error: AI response failed: Response timeout', the busy flag is
\* down, the session and the ready flag are kept, and the engine call is
\* still in flight (pc "late"); a later request may then prompt the same
\* session.
C16_TimeoutRace ==
    [][\A i \in DOMAIN chats :
          chats'[i].timedOut /\ ~chats[i].timedOut =>
              /\ chats[i].pc = "race" /\ chats'[i].pc = "late"
              /\ chats'[i].session = aiSession'
              /\ messages'[chats[i].msgEl].text =
                     "Error: AI response failed: Response timeout"
              /\ ~isGenerating'
              /\ aiReady' /\ aiSession' = aiSession /\ aiSession' # Null]_vars

\* C16's case: two prompt() calls in flight on one session, the first of
\* a request that timed out, the second of the request that followed it.
C16_Witness ==
    /\ Len(chats) = 2
    /\ chats[1].pc = "late" /\ chats[2].pc = "race"
    /\ chats[1].session = chats[2].session
    /\ isGenerating

SpecDraft == InitContent /\ [][NextDraft]_vars

\* The runtime channel of the WebLLM build with its two listeners.
SpecChannel == InitWebLLM /\ [][NextChannel]_vars

\* The WebLLM popup receiving progress objects.
InitLoading == Idle /\ gmail = "none" /\ build = "popup-webllm"
SpecProgress == InitLoading /\ [][NextProgress]_vars

\* The built-in-AI background serving chats and context-menu analyses.
SpecGenerate == Init /\ [][NextGenerate]_vars

\* The WebLLM popup and its background, with every call the chat handler
\* awaits settling in the end: its own awaits (content script, getContexts,
\* createDocument, the offscreen host's answer, the polling timer), and the
\* createDocument and CreateMLCEngine calls of whichever invocation made
\* them, on which a chat may be waiting.  The claim takes the offscreen
\* call to settle, so the polling loop of initializeEngine (offscreen.js
\* lines 50-53) is taken to meet isLoading down at one of the times it keeps
\* being down: strong fairness for that step.
PairFairness ==
    /\ WF_vars(\E h \in OH : h.kind = "chat" /\ Settles(h))
    /\ SF_vars(\E h \in OH : h.kind = "chat" /\ EngineWaitPoll(h))
    /\ WF_vars(\E h \in OH : CreateDocumentDone(h))
    /\ WF_vars(\E h \in OH : initializeEngine(h))
SpecPair == InitWebLLM /\ [][NextPair]_vars /\ PairFairness

RequiredMissing(d, h) ==
    \/ h.action \in {"search", "filter_unread"} /\ ~d.searchBox
    \/ h.action = "open_email"
          /\ (IF h.absent THEN 0 ELSE h.index) \notin 0..(d.rows - 1)
    \/ h.action = "scroll" /\ ~d.scroller
    \/ h.action = "draft_reply" /\ ~d.replyBtn
    \/ h.action \in {"summarize_email", "analyze_sentiment"} /\ ~d.emailBody

\* C19 (SpecPage): the listener answers each message exactly once and no
\* exception leaves it; an unknown action name, and a handler whose
\* required element is missing from the page, answer {error}.
C19_EveryMessageAnswered ==
    [][handled = NoMessage /\ handled' # NoMessage =>
          /\ handled'.answers = 1
          /\ ~handled'.escaped
          /\ handled'.action \notin KnownActions => handled'.reply = "error"
          /\ RequiredMissing(dom, handled') =>
                 handled'.reply = "error" /\ handled'.effects = <<>>]_vars

\* C19's case: draft_reply was handled on a page without a Reply button.
C19_Witness ==
    /\ handled.action = "draft_reply" /\ ~dom.replyBtn
    /\ handled.reply = "error" /\ handled.text = "Reply button not found"
    /\ dom.rows > 0 /\ dom.searchBox

\* C20 (SpecPage): open_email with an index that is negative or not below
\* the number of rows answers {error}, does not throw, clicks no row and
\* changes nothing in the page.
C20_OpenEmailOutOfRange ==
    [][ /\ handled = NoMessage
        /\ handled'.action = "open_email" /\ ~handled'.absent
        /\ handled'.index < 0 \/ handled'.index >= dom.rows
        => /\ handled'.reply = "error" /\ handled'.answers = 1
           /\ ~handled'.escaped
           /\ handled'.effects = <<>>
           /\ UNCHANGED <<dom, draftTimers, composeHTML>> ]_vars

\* C20's case: open_email was handled with the index just past the last of
\* the page's rows.
C20_Witness ==
    /\ handled.action = "open_email" /\ ~handled.absent
    /\ dom.rows > 0 /\ handled.index = dom.rows
    /\ handled.text = "Email not found"

Awaiting(e) ==
    BagCardinality([q \in {x \in RQ : x.pc = "instance" /\ EngineOf(x.kind) = e}
                       |-> requests[q]])

\* C22 (SpecPipe): pipeline() is called at most once per engine kind, and
\* exactly when the kind's first caller finds no promise stored; every
\* invocation that awaits an instance awaits the one stored promise, which
\* is then pending; and a step that creates or settles the promise of one
\* kind leaves the other kind's promise and call count alone.
C22_OnePipelinePerKind ==
    [][ /\ \A e \in EngineKinds :
              /\ pipelineCalls'[e] <= 1
              /\ pipelineCalls'[e] = 0 <=> instance'[e] = "null"
              /\ Awaiting(e)' > 0 => instance'[e] = "pending"
              /\ pipelineCalls'[e] # pipelineCalls[e] => instance[e] = "null"
        /\ \A e, f \in EngineKinds :
              e # f /\ instance'[e] # instance[e] =>
                  instance'[f] = instance[f] /\ pipelineCalls'[f] = pipelineCalls[f]
      ]_vars

\* C22's case: two invocations await the text pipeline's one promise while
\* the image pipeline has been loaded on its own.
C22_Witness ==
    /\ Awaiting("text") = 2 /\ instance["text"] = "pending"
    /\ instance["image"] = "resolved"
    /\ pipelineCalls = [e \in EngineKinds |-> 1]

\* C23 (SpecParse): when an action was parsed and the text without its JSON
\* is empty, the response is the confirmation string of the action's name,
\* or the generic fallback string for a name that has no entry.
C23_CannedConfirmation ==
    LET m == IF variant = "bg" THEN actionMatchBg(rawText)
             ELSE actionMatchOff(rawText)
    IN  variant # "none" /\ parsed.action # NoAction
           /\ Trim(RemoveMatch(rawText, m)) = <<>> =>
        parsed.response =
            IF parsed.action.action = <<"S">>
            THEN (IF variant = "bg" THEN <<"Summarizing your inbox...">>
                  ELSE <<"I'll summarize your inbox for you.">>)
            ELSE (IF variant = "bg" THEN <<"Processing...">>
                  ELSE <<"Executing action...">>)

\* A well-formed JSON object of the text with the word "action" inside it.
AroundAction(s, i, j) ==
    ObjectAt(s, i, j) /\ \E k \in i..j : s[k] = "A"

C25_OpenEmailClicksRow ==
    [][handled = NoMessage /\ handled'.action = "open_email" =>
          LET index == IF handled'.absent THEN 0 ELSE handled'.index IN
          index \in 0..(dom.rows - 1) =>
              /\ handled'.reply = "success"
              /\ handled'.text = "Opened email"
              /\ handled'.effects = <<Effect("click", index)>>]_vars

\* The chat requests of the WebLLM popup that are outstanding: sent (or
\* streaming) and not settled.
Outstanding == {i \in DOMAIN chats : chats[i].pc \in {"sent", "stream"}}

\* C26 (SpecUI, WebLLM popup): at most one chat request is outstanding; a
\* request is sent only by a trigger that found isGenerating false, and it
\* adds one user message; a trigger that finds isGenerating true changes
\* nothing -- no request, no user message -- and no later step sends a
\* request for it (requests are sent by trigger steps only).
C26_BusyGuard ==
    [][build = "popup-webllm" =>
          /\ Cardinality(Outstanding') <= 1
          /\ Len(chats') > Len(chats) =>
                /\ ~isGenerating /\ Outstanding = {}
                /\ clicks'.last = "started"
                /\ clicks'.userMessages = clicks.userMessages + 1
                /\ Len(chats') = Len(chats) + 1
          /\ Len(chats') = Len(chats) => clicks'.userMessages = clicks.userMessages
          /\ isGenerating /\ clicks' # clicks =>
                /\ clicks' = [clicks EXCEPT !.last = "dropped"]
                /\ UNCHANGED <<chats, messages, streamingMessage, isGenerating>>]_vars

\* C26's case: a trigger was dropped while the first request is
\* outstanding -- one request, one user message.
C26_Witness ==
    /\ build = "popup-webllm"
    /\ clicks = [last |-> "dropped", userMessages |-> 1]
    /\ isGenerating /\ Outstanding = {1} /\ Len(chats) = 1

\* C27 (SpecUI1): the send button or the quick-action buttons are enabled,
\* or the badge shows 'ready', only if aiReady is true and isGenerating is
\* false.
C27_AffordanceGating ==
    affordances.sendBtn \/ affordances.quickActions \/ affordances.badge = "ready"
        => aiReady /\ ~isGenerating

\* Call i is at aiSession.prompt().
Prompting(i) == i \in DOMAIN chats /\ chats[i].pc = "race"

\* C28 (SpecUI, second built-in-AI popup): a prompt that fails with a
\* session error leaves aiSession = null and aiReady = false, shows the
\* 'Session expired. Reinitializing...' notice in its message element and
\* schedules initAI, none being scheduled or running by then; every prompt
\* is issued with aiReady true on the current session, and aiReady becomes
\* true only when initAI's create() succeeds.
C28_SessionRecovery ==
    [][build = "popup-ai" =>
          /\ \A i \in DOMAIN chats :
                chats[i].failure = "none" /\ chats'[i].failure = "session" =>
                    /\ aiSession' = Null /\ ~aiReady' /\ ~isGenerating'
                    /\ messages'[chats[i].msgEl].text = "Session expired. Reinitializing..."
                    /\ initPc = "idle" /\ initPc' = "timer"
          /\ \A i \in DOMAIN chats' :
                Prompting(i)' /\ ~Prompting(i) =>
                    /\ aiReady /\ aiSession # Null /\ initPc = "idle"
                    /\ chats'[i].session = aiSession
          /\ aiReady' /\ ~aiReady => initPc = "create" /\ aiSession' # Null
          /\ initPc' = "timer" => ~aiReady' /\ aiSession' = Null]_vars

\* C28's case: the first request failed with a session error, initAI ran
\* again and succeeded, and the second request prompts the new session.
C28_Witness ==
    /\ build = "popup-ai" /\ Len(chats) = 2
    /\ chats[1].failure = "session" /\ chats[1].session = 1
    /\ chats[2].pc = "race" /\ chats[2].session = 2 /\ aiSession = 2

\* The invocations of the bag b that are inside getAISession's try block
\* (at checkAIAvailability or at create).
Creating(b) ==
    BagCardinality([h \in {x \in BagToSet(b) : x.pc \in {"avail", "create"}} |-> b[h]])

\* C29: the engine lifecycle of background.js as the state (aiSession,
\* isCreatingSession) -- never loading and ready at once; a session appears
\* only in the step that completes a create, out of loading; the flag is up
\* exactly while one caller is inside the try block, so it drops when that
\* caller's check or create settles, with success or with failure; a failed
\* generation leaves no session, and every prompt is issued on the current
\* session, outside loading.
C29_EngineLifecycle ==
    [][ /\ ~(isCreatingSession' /\ aiSession' # Null)
        /\ aiSession' # Null /\ aiSession' # aiSession =>
              /\ aiSession = Null /\ isCreatingSession /\ ~isCreatingSession'
              /\ created' = created + 1 /\ aiSession' = created'
        /\ Creating(handlers') = (IF isCreatingSession' THEN 1 ELSE 0)
        /\ Creating(handlers') < Creating(handlers) => ~isCreatingSession'
        /\ failed' # failed => aiSession' = Null /\ UNCHANGED isCreatingSession
        /\ PromptsInFlight' > PromptsInFlight =>
              aiSession' # Null /\ ~isCreatingSession' ]_vars

\* C29's case: a generation failed on the first session, the next request
\* went through loading and the second session is ready and prompted.
C29_Witness ==
    /\ failed = {1} /\ aiSession = 2 /\ ~isCreatingSession
    /\ PromptsInFlight = 1
    /\ \E h \in H : h.pc = "prompt" /\ h.session = 2 /\ h.kind = "chat"

\* C30 (SpecPrompt): the prompt built from a context of the content script
\* holds at most 25 inbox items and at most 2000 characters of the open
\* email's body.
C30_PromptBounded ==
    inference.stage = "prompt" =>
        inference.promptItems <= 25 /\ inference.promptChars <= 2000

\* The step in which the listener answers draft_reply with success.
DraftAnswered ==
    /\ handled = NoMessage
    /\ handled'.action = "draft_reply" /\ handled'.reply = "success"

\* C31 (SpecDraft): draft_reply is fire-and-forget -- with a Reply button
\* the handler clicks it, answers {success: true} once and sets one timer,
\* and inserts nothing in that step; text is inserted only by a timer, each
\* timer makes one attempt, and an attempt that finds no compose body drops
\* the text, reports nothing and leaves the answer already given as it is.
C31_DraftFireAndForget ==
    [][ /\ handled = NoMessage /\ handled'.action = "draft_reply"
           /\ dom.replyBtn /\ handled'.text # "error.message"
           => DraftAnswered
        /\ DraftAnswered =>
              /\ dom.replyBtn
              /\ handled'.effects = <<Effect("click-reply", 0)>>
              /\ handled'.answers = 1 /\ ~handled'.escaped
              /\ draftTimers' = draftTimers + 1
              /\ UNCHANGED <<dom, composeHTML>>
        /\ draftTimers' > draftTimers => DraftAnswered
        /\ composeHTML' \notin {composeHTML, ""} =>
              draftTimers' = draftTimers - 1 /\ dom.composeBody
        /\ draftTimers' < draftTimers =>
              /\ draftTimers' = draftTimers - 1
              /\ UNCHANGED <<dom, handled>>
              /\ composeHTML' = IF dom.composeBody THEN "text" ELSE composeHTML ]_vars

\* C31's case: draft_reply was answered with success, its timer has fired,
\* and the page has no compose body and no draft text.
C31_Witness ==
    /\ handled.action = "draft_reply" /\ handled.reply = "success"
    /\ handled.answers = 1
    /\ draftTimers = 0 /\ dom.replyBtn /\ ~dom.composeBody /\ composeHTML = ""

\* C32 (SpecChannel): a message is answered by at most one of the two
\* listeners.  A message tagged for the offscreen host is left alone by the
\* background and handled by the offscreen host, which answers it once when
\* handleMessage settles, with an error result for a type it does not know;
\* a message without the tag is never handled or answered by the offscreen
\* host.
C32_TargetMultiplexing ==
    \A i \in DOMAIN channel :
        LET e == channel[i] IN
        /\ Cardinality({e.answers[k].by : k \in DOMAIN e.answers}) <= 1
        /\ e.msg.target = "offscreen" =>
              /\ e.bg \in {"waiting", "sender", "ignored"}
              /\ e.off \in {"waiting", "handling", "done"}
              /\ e.answers = <<>> <=> e.off # "done"
              /\ Len(e.answers) <= 1
              /\ \A k \in DOMAIN e.answers :
                    /\ e.answers[k].by = "offscreen"
                    /\ e.msg.name \notin {"load_model", "check_status", "generate"}
                          => e.answers[k].reply = "error"
        /\ e.msg.target # "offscreen" =>
              /\ e.off \in {"waiting", "sender", "ignored"}
              /\ \A k \in DOMAIN e.answers : e.answers[k].by = "background"

\* C32's case: the popup's chat message was ignored by the offscreen host;
\* the background's tagged generate message was handled and answered by the
\* offscreen host, and the background answered the popup with that answer.
C32_Witness ==
    /\ Len(channel) = 2
    /\ channel[1].msg = RuntimeMessage("", "chat")
    /\ channel[1].off = "ignored"
    /\ channel[1].answers = <<Answer("background", "success")>>
    /\ channel[2].msg = RuntimeMessage("offscreen", "generate")
    /\ channel[2].bg = "sender"
    /\ channel[2].answers = <<Answer("offscreen", "success")>>

\* The latest initAI found no API, or availability() said 'unavailable'.
Unavailable == availability \in {"no-api", "unavailable"}

\* C33 (SpecUI, the built-in-AI popup): unavailability is terminal -- when
\* initAI finds no API or availability() reports 'unavailable', initAI is
\* over with no session and aiReady false, and from then on no create() is
\* attempted, aiReady stays false, no chat request is issued and initAI is
\* not run or scheduled again.
C33_UnavailabilityTerminal ==
    [][build = "popup-ai" =>
          /\ Unavailable' =>
                /\ initPc' = "idle" /\ ~aiReady' /\ aiSession' = Null
                /\ UNCHANGED created
          /\ Unavailable =>
                /\ Unavailable'
                /\ Len(chats') = Len(chats)
                /\ \A i \in DOMAIN chats : Prompting(i)' => Prompting(i)]_vars

\* C33's case: after a session error the second initAI was told
\* 'unavailable': one session was created, none is left, and the popup is
\* idle and not ready.
C33_Witness ==
    /\ build = "popup-ai" /\ availability = "unavailable"
    /\ created = 1 /\ aiSession = Null /\ ~aiReady /\ initPc = "idle"
    /\ Len(chats) = 1 /\ chats[1].failure = "session"

\* The per-file events with total > 0 among the events received, and for a
\* file the position of its latest one.
Counted == {k \in DOMAIN progressEvents :
               progressEvents[k].status = "progress" /\ progressEvents[k].total > 0}
FilesSeen == {progressEvents[k].file : k \in Counted}
LatestOf(f) == progressEvents[Max({k \in Counted : progressEvents[k].file = f})]
LatestEvents == [f \in FilesSeen |-> LatestOf(f)]

ChatPromptRejects(h) ==
    /\ h.kind = "chat" /\ h.pc = "prompt"
    /\ handlers' = Others(h) (+) One(Replied(h, Fault("chat", "prompt failed")))

\* C35 (SpecGenerate): the failure handler of generateResponse clears
\* aiSession whatever session the failed call was made on -- the rejection of
\* a chat's prompt leaves aiSession null, also when the call was made on an
\* earlier session than the current one and no call on the current one has
\* failed.
C35_StaleFailureDiscards ==
    [][\A h \in H : ChatPromptRejects(h) =>
          /\ aiSession' = Null
          /\ failed' = failed \cup {h.session}]_vars

\* C35's case: a chat and an analysis were in flight on session 1, the
\* failure of the analysis led to session 2, and the chat's failure then
\* discarded session 2, on which no call has failed.
C35_Witness ==
    /\ created = 2 /\ aiSession = Null /\ failed = {1}
    /\ \E h \in H : /\ h.kind = "chat" /\ h.pc = "replied" /\ h.session = 1
                    /\ h.reply = Fault("chat", "prompt failed")

\* The chat requests of the popup that the background has not answered yet,
\* and those it has.
ChatsPending == {h \in OH : h.kind = "chat" /\ h.pc # "replied"}
ChatsReplied == {h \in OH : h.kind = "chat" /\ h.pc = "replied"}

\* C36 (SpecPair): with every awaited call settling, a chat request of the
\* WebLLM popup gets exactly one response from the background and the popup
\* returns to not-busy -- while the popup is busy exactly one chat request
\* is with the background, sendResponse is called for it once, the popup
\* leaves the busy state only by taking that response (a success or an
\* error) or by the rejection of its send, and it always does leave it.
C36_RequestLiveness ==
    /\ [][ /\ isGenerating' =>
                 /\ \A h \in OH' : h.kind = "chat" => senders'[h] = 1
                 /\ Cardinality(ChatsPending' \cup ChatsReplied') = 1
           /\ ~isGenerating' => ChatsPending' \cup ChatsReplied' = {}
           /\ \A h \in ChatsReplied' : h.reply.type \in {"success", "failure", "error"}
           /\ isGenerating /\ ~isGenerating' =>
                 \E h \in OH : /\ senders' = OthersOff(h)
                               /\ \/ h \in ChatsReplied
                                  \/ h \in ChatsPending /\ h.pc = "ctx" ]_vars
    /\ (isGenerating ~> ~isGenerating)

\* C36's case: a chat of the popup has been answered with the error
\* envelope of a generation that failed, and the popup is about to take it.
C36_Witness ==
    /\ isGenerating /\ modelReady
    /\ \E h \in ChatsReplied : h.reply = Failure("generation failed")

\* C37 (SpecPipe): a failed pipeline load is cached for good.  The promise
\* getInstance stored stays stored when it settles; once it has rejected it
\* stays rejected, pipeline() is not called again for that engine kind, and
\* every invocation of that kind has failed with the load's error: none
\* awaits an instance or reaches its model call.
C37_FailedLoadCached ==
    [][ \A e \in EngineKinds :
          /\ instance[e] = "pending" /\ instance'[e] # "pending" =>
                 instance'[e] \in {"resolved", "rejected"}
          /\ instance[e] = "rejected" =>
                 /\ instance'[e] = "rejected"
                 /\ pipelineCalls'[e] = pipelineCalls[e]
          /\ instance'[e] = "rejected" =>
                 \A q \in RQ' : EngineOf(q.kind) = e =>
                     /\ q.pc \notin {"instance", "infer"}
                     /\ q.fault = "load failed"
      ]_vars

\* C37's case: the text pipeline's one load has failed, the popup went on to
\* enable its button, and the analysis it then asked for failed on the stored
\* promise without another load.
C37_Witness ==
    /\ instance["text"] = "rejected" /\ pipelineCalls["text"] = 1
    /\ modelReady
    /\ \E q \in RQ : q.kind = "analyze" /\ q.fault = "load failed"

\* The setupOffscreenDocument calls that found no document and have returned
\* normally, so that their sendToOffscreen has gone on to send.
Provisioned(b) ==
    BagCardinality([h \in {x \in BagToSet(b) : x.pc = "sent" /\ ~x.found} |-> b[h]])

\* C38 (SpecPair): a failed offscreen provisioning is sticky.  creatingOffscreen
\* is reset to null only by a creation that succeeded; once it holds a
\* rejected promise it keeps it, no createDocument is issued and nobody
\* awaits one, and a setupOffscreenDocument call that found no document
\* does not return normally: it fails with the creation's error.
C38_ProvisioningSticky ==
    [][ /\ creatingOffscreen # "null" /\ creatingOffscreen' = "null" =>
               creatingOffscreen = "pending" /\ ~docExists /\ docExists'
        /\ creatingOffscreen = "rejected" =>
               /\ creatingOffscreen' = "rejected"
               /\ \A q \in BagToSet(senders') : q.pc \notin {"creating", "awaiting"}
               /\ Provisioned(senders') <= Provisioned(senders)
               /\ \A h \in OH :
                      h.pc = "queried" /\ ~h.found
                      /\ CopiesIn(h, senders') < CopiesIn(h, senders) =>
                          IF h.kind = "menu"
                          THEN BagCardinality(senders') < BagCardinality(senders)
                          ELSE LET f == Replied(h, Fault(h.kind, "createDocument failed"))
                               IN  CopiesIn(f, senders') > CopiesIn(f, senders)
      ]_vars

\* C38's case: createDocument was rejected while no document existed, the
\* popup's load has failed with that error, and a context-menu analysis that
\* found no document either is about to resume on the stored promise.
C38_Witness ==
    /\ creatingOffscreen = "rejected" /\ ~docExists
    /\ CreatesPending(senders) = 0
    /\ \E q \in OH : /\ q.kind = "load_model" /\ q.pc = "replied" /\ ~q.found
                     /\ q.reply = Fault("load_model", "createDocument failed")
    /\ \E q \in OH : q.kind = "menu" /\ q.pc = "queried" /\ ~q.found

\* C39 (SpecUI): in the built-in-AI popup aiReady implies a session, and
\* aiSession.prompt is never called on null: a generation that comes back
\* from getEmailContext finds a session and prompts that one.
C39_ReadyImpliesSession ==
    /\ aiReady => aiSession # Null
    /\ [][ /\ aiReady' => aiSession' # Null
           /\ \A i \in DOMAIN chats :
                  chats[i].pc = "ctx" /\ chats'[i].pc # "ctx" =>
                      /\ aiSession # Null
                      /\ chats'[i].pc = "race"
                      /\ chats'[i].session = aiSession
           /\ \A i \in DOMAIN chats' : Prompting(i)' => chats'[i].session # Null
         ]_vars

\* C39's case: a session expired under a generation, initAI ran again from
\* the timer and made the second session, and a new generation is prompting
\* that one.
C39_Witness ==
    /\ build = "popup-ai" /\ aiReady /\ aiSession = 2
    /\ \E i \in DOMAIN chats : chats[i].pc = "done" /\ chats[i].failure = "session"
    /\ \E i \in DOMAIN chats : Prompting(i) /\ chats[i].session = 2

\* The check_status invocations of a bag of invocations.
StatusOf(b) ==
    [h \in {x \in BagToSet(b) : x.kind = "check_status"} |-> b[h]]

\* C40 (SpecStatus): check_status is a pure query of the engine lifecycle.
\* A step of a check_status invocation leaves the handle and the loading
\* flag as they are (aiSession, isCreatingSession and the count of sessions
\* in the background; engine, isLoading and isLoaded in the offscreen host),
\* no such invocation is ever inside a load, and the answer says loaded
\* exactly when the handle exists at that moment.
C40_StatusIsPure ==
    [][ /\ StatusOf(handlers') # StatusOf(handlers) =>
               /\ aiSession' = aiSession
               /\ isCreatingSession' = isCreatingSession
               /\ created' = created
        /\ StatusOf(senders') # StatusOf(senders) =>
               /\ engine' = engine
               /\ isLoading' = isLoading
               /\ isLoaded' = isLoaded
        /\ \A q \in BagToSet(handlers') \cup BagToSet(senders') :
               q.kind = "check_status" =>
                   q.pc \notin {"avail", "create", "wait", "prompt", "loading",
                                "completing"}
        /\ \A h \in H :
               h.pc = "check_status" /\ CopiesIn(h, handlers') < CopiesIn(h, handlers) =>
                   \E q \in BagToSet(handlers') :
                       /\ q.kind = "check_status" /\ q.pc = "replied"
                       /\ q.reply.type = "status"
                       /\ q.reply.loaded = (aiSession # Null)
                       /\ CopiesIn(q, handlers') > CopiesIn(q, handlers)
        /\ \A h \in OH :
               h.kind = "check_status" /\ h.pc = "sent"
               /\ CopiesIn(h, senders') < CopiesIn(h, senders) =>
                   \E q \in BagToSet(senders') :
                       /\ q.kind = "check_status" /\ q.pc = "answered"
                       /\ q.answer.type = "status"
                       /\ q.answer.loaded = (engine # Null)
                       /\ q.answer.loading = isLoading
                       /\ CopiesIn(q, senders') > CopiesIn(q, senders)
      ]_vars

\* C40's case: the offscreen host answered a check_status while an engine
\* load was running, with loaded false and loading true, and the load is
\* still running.
C40_Witness ==
    /\ build = "webllm" /\ isLoading /\ engine = Null
    /\ \E q \in OH : /\ q.kind = "check_status" /\ q.pc = "answered"
                     /\ q.answer.loading /\ ~q.answer.loaded
====
